---------------------------- MODULE Spec2Model ----------------------------
(***************************************************************************)
(* zvote: ballot aggregation for Approval voting and Majority Judgment.    *)
(*                                                                         *)
(* The database tables (vote, vote_option, approval, judgment, mj_summary) *)
(* are the state.  Every reducer is one atomic action (SpacetimeDB runs a  *)
(* reducer as one serialized transaction).  The auto-increment row id of   *)
(* the judgment table and the timestamp of the approval table are left out *)
(* of the rows; both tables are bags, so that two rows for the same        *)
(* (voter, option) remain representable.                                   *)
(***************************************************************************)
EXTENDS Integers, Sequences, FiniteSets, Bags, TLC

(***************************************************************************)
(* Bounds of the model.                                                    *)
(***************************************************************************)
NumVoters == 2          \* identities that call reducers: 1..NumVoters
MaxTallyOptions == 3    \* SpecTally: count arrays handed to the aggregator
MaxTallyBallots == 4    \* SpecTally: ballots counted over all the arrays
CountWidth == 3         \* bits of the unsigned integers that stand for u32

(***************************************************************************)
(* enum Mention, worst to best; derive(Ord) orders the variants by their   *)
(* position, which is also the index of the grade in a counts array.       *)
(***************************************************************************)
ToReject == 0
Passable == 1
Good == 2
VeryGood == 3
Excellent == 4
Mention == ToReject..Excellent

\* Option<Mention>: None is the empty sequence, Some(m) the sequence <<m>>
None == <<>>

Some(m) == <<m>>

\* enum VotingSystem
VotingSystem == {"Approval", "MajorityJudgment"}

VARIABLES
    vote,                \* table vote: id -> [creator, voting_system], and
                         \*    visibility in the rows made by create_vote
    vote_option,         \* table vote_option: id -> [vote_id, approvals_count],
                         \*    and label, order_index in the rows made by
                         \*    create_vote
    approval,            \* table approval: bag of [vote_id, option_id, voter]
    judgment,            \* table judgment: bag of [option_id, voter, mention]
    mj_summary,          \* table mj_summary: option_id -> summary row
    sequence,            \* the auto_inc sequences of vote and vote_option: the
                         \*    id that the next inserted row gets
    result,              \* what the last reducer call returned
    counts_list,         \* SpecTally: the count arrays given to the aggregator
    majorities_seconds,  \* SpecTally: what the aggregator returned for them
    call,                \* the specifications that record calls: the last call
    before,              \* ... and the tables as that call found them
    prior                \* SpecWithdrawCast: the withdrawal just before it

db == <<vote, vote_option, approval, judgment, mj_summary, sequence>>
tally == <<counts_list, majorities_seconds>>
hist == <<call, before, prior>>
vars == <<vote, vote_option, approval, judgment, mj_summary, sequence, result,
          counts_list, majorities_seconds, call, before, prior>>

Voters == 1..NumVoters

(***************************************************************************)
(* u32 helpers.  The counters are unsigned integers of CountWidth bits, so *)
(* that the greatest value can be reached with a few rows.  An addition    *)
(* written + or += wraps in a build without overflow checks (the release   *)
(* profile) and panics in a build with them (the debug profile); the       *)
(* operators below give the value of the build without checks.             *)
(***************************************************************************)
\* u32::MAX
CountMax == 2^CountWidth - 1

\* a + b of a build without overflow checks
wrapping_add(a, b) == (a + b) % (CountMax + 1)

saturating_add(a, b) == IF a + b > CountMax THEN CountMax ELSE a + b

\* counts[k] += 1, once for each of n rows
add_assign_each(n) == n % (CountMax + 1)

\* total = total.saturating_add(1), once for each of n rows
saturating_add_each(n) == IF n > CountMax THEN CountMax ELSE n

saturating_sub(a, b) == IF a < b THEN 0 ELSE a - b

RECURSIVE SeqSum(_)
SeqSum(s) == IF s = <<>> THEN 0 ELSE Head(s) + SeqSum(Tail(s))

RECURSIVE SetSum(_, _)
\* sum of f[x] over the finite set S
SetSum(f, S) ==
    IF S = {} THEN 0
    ELSE LET x == CHOOSE y \in S : TRUE IN f[x] + SetSum(f, S \ {x})

\* c.iter().sum() of a counts array
counts_sum(counts) == SetSum(counts, Mention) % (CountMax + 1)

ZeroCounts == [m \in Mention |-> 0]

(***************************************************************************)
(* Majority Judgment aggregator (proto1/server/src/judgment.rs).           *)
(***************************************************************************)
RECURSIVE loop_exit(_, _, _, _)
\* the for loop of compute_majority_from_counts, entered at grade i with
\* the cumulative count cum of the grades below i: the grade at which the
\* loop returns, or Excellent + 1 when the loop ends without returning
loop_exit(counts, target, i, cum) ==
    IF i > Excellent THEN i
    ELSE LET c == saturating_add(cum, counts[i]) IN
         IF c >= target THEN i
         ELSE loop_exit(counts, target, i + 1, c)

\* the loop and the fallback that follows it
median_scan(counts, target, i, cum) ==
    LET exit == loop_exit(counts, target, i, cum)
    IN IF exit > Excellent THEN Excellent        \* fallback after the loop
       ELSE exit

\* faulty variant: the position is past the last ballot
median_target_past_end(total) == total + 1

\* let target = (total + 1) / 2
median_target(total) == wrapping_add(total, 1) \div 2

\* faulty variant: upper median, target = total / 2 + 1
compute_majority_upper(counts, total) ==
    IF total = 0 THEN ToReject
    ELSE median_scan(counts, (total \div 2) + 1, ToReject, 0)

\* faulty variant: the default for no judgments is the best grade
compute_majority_default_best(counts, total) ==
    IF total = 0 THEN Excellent
    ELSE median_scan(counts, median_target(total), ToReject, 0)

compute_majority_from_counts(counts, total) ==
    IF total = 0 THEN ToReject
    ELSE median_scan(counts, median_target(total), ToReject, 0)

\* faulty variant: no early return for total <= 1
compute_second_no_total_check(counts, total, majority) ==
    IF counts[majority] = 0 THEN None
    ELSE Some(compute_majority_from_counts(
                  [counts EXCEPT ![majority] = counts[majority] - 1],
                  saturating_sub(total, 1)))

\* faulty variant: the ballot is removed but the total is not reduced
compute_second_same_total(counts, total, majority) ==
    IF total <= 1 THEN None
    ELSE IF counts[majority] = 0 THEN None
    ELSE Some(compute_majority_from_counts(
                  [counts EXCEPT ![majority] = counts[majority] - 1], total))

compute_second_from_counts(counts, total, majority) ==
    IF total <= 1 THEN None
    ELSE IF counts[majority] = 0 THEN None
    ELSE Some(compute_majority_from_counts(
                  [counts EXCEPT ![majority] = counts[majority] - 1], total - 1))

\* majorities.iter().copied().max().unwrap_or(Mention::ToReject)
best_majority_of(majorities) ==
    IF majorities = <<>> THEN ToReject
    ELSE CHOOSE b \in Mention :
            /\ \E i \in DOMAIN majorities : majorities[i] = b
            /\ \A i \in DOMAIN majorities : majorities[i] <= b

\* faulty variant: a second for every top option, tied or not
compute_majorities_and_seconds_no_tie_check(cl) ==
    LET totals == [i \in DOMAIN cl |-> counts_sum(cl[i])]
        majorities == [i \in DOMAIN cl |->
                          compute_majority_from_counts(cl[i], totals[i])]
        best_majority == best_majority_of(majorities)
    IN [i \in DOMAIN cl |->
           [majority |-> majorities[i],
            second |-> IF majorities[i] = best_majority
                       THEN compute_second_from_counts(
                                cl[i], totals[i], majorities[i])
                       ELSE None]]

\* faulty variant: a second for every option once the top is tied
compute_majorities_and_seconds_all_on_tie(cl) ==
    LET totals == [i \in DOMAIN cl |-> counts_sum(cl[i])]
        majorities == [i \in DOMAIN cl |->
                          compute_majority_from_counts(cl[i], totals[i])]
        best_majority == best_majority_of(majorities)
        winners_count ==
            Cardinality({i \in DOMAIN cl : majorities[i] = best_majority})
    IN [i \in DOMAIN cl |->
           [majority |-> majorities[i],
            second |-> IF winners_count > 1
                       THEN compute_second_from_counts(
                                cl[i], totals[i], majorities[i])
                       ELSE None]]

\* returns one (majority, second) pair per count array, as a record
compute_majorities_and_seconds(cl) ==
    LET totals == [i \in DOMAIN cl |-> counts_sum(cl[i])]
        majorities == [i \in DOMAIN cl |->
                          compute_majority_from_counts(cl[i], totals[i])]
        best_majority == best_majority_of(majorities)
        winners_count ==
            Cardinality({i \in DOMAIN cl : majorities[i] = best_majority})
        have_tie_among_winners == winners_count > 1
    IN [i \in DOMAIN cl |->
           [majority |-> majorities[i],
            second |-> IF have_tie_among_winners
                          /\ majorities[i] = best_majority
                       THEN compute_second_from_counts(
                                cl[i], totals[i], majorities[i])
                       ELSE None]]

(***************************************************************************)
(* SpecTally: the aggregator as a pure function.  The count arrays grow    *)
(* one option or one ballot at a time, and the aggregator is applied to    *)
(* every list so built.                                                    *)
(***************************************************************************)
TallyBallots == SeqSum([i \in DOMAIN counts_list |-> counts_sum(counts_list[i])])

TallyAddOption ==
    /\ Len(counts_list) < MaxTallyOptions
    /\ counts_list' = Append(counts_list, ZeroCounts)
    /\ majorities_seconds' = compute_majorities_and_seconds(counts_list')
    /\ UNCHANGED <<db, result>>

TallyAddBallot(i, m) ==
    /\ TallyBallots < MaxTallyBallots
    /\ counts_list' = [counts_list EXCEPT ![i][m] = counts_list[i][m] + 1]
    /\ majorities_seconds' = compute_majorities_and_seconds(counts_list')
    /\ UNCHANGED <<db, result>>


(***************************************************************************)
(* Table helpers (server/src/vote.rs).                                     *)
(***************************************************************************)
\* the elements of a finite set of numbers in ascending order
SetToSortedSeq(S) ==
    [i \in 1..Cardinality(S) |->
        CHOOSE x \in S : Cardinality({y \in S : y < x}) = i - 1]

Range(s) == {s[i] : i \in DOMAIN s}

\* ctx.db.vote().id().find(vote_id).is_some()
vote_exists(vote_id) == vote_id \in DOMAIN vote

\* ctx.db.vote_option().id().find(option_id).is_some()
vote_option_exists(option_id) == option_id \in DOMAIN vote_option

\* the by_vote index of vote_option, read in id order
get_vote_options(vote_id) ==
    SetToSortedSeq({o \in DOMAIN vote_option : vote_option[o].vote_id = vote_id})

\* ctx.db.vote_option().id().update(VoteOption { approvals_count, ..opt })
set_vote_option_approvals_count(options, option_id, new_count) ==
    [options EXCEPT ![option_id].approvals_count = new_count]

\* number of rows of bag B that lie in the set S of rows
BagCount(B, S) == BagCardinality([r \in S |-> B[r]])

\* B without every copy of the rows in S
BagWithout(B, S) == [r \in BagToSet(B) \ S |-> B[r]]

(***************************************************************************)
(* Approval tally engine (server/src/approval.rs).                         *)
(***************************************************************************)
ApprovalCeiling == 20

ApprovalRow(vote_id, option_id, voter) ==
    [vote_id |-> vote_id, option_id |-> option_id, voter |-> voter]

\* faulty variant: nothing is ever removed
compute_approval_diffs_add_only(current, desired) ==
    [to_add |-> desired \ current, to_remove |-> {}]

\* desired.difference(current), current.difference(desired)
compute_approval_diffs(current, desired) ==
    [to_add |-> desired \ current, to_remove |-> current \ desired]

\* faulty variant: approve without the check for an existing approval
approve_no_existing_check(sender, vote_id, option_id) ==
    IF ~vote_option_exists(option_id)
    THEN result' = "OptionNotFound" /\ UNCHANGED <<db, tally>>
    ELSE IF vote_option[option_id].vote_id # vote_id
    THEN result' = "OptionNotInVote" /\ UNCHANGED <<db, tally>>
    ELSE IF ~vote_exists(vote_id)
    THEN result' = "VoteNotFound" /\ UNCHANGED <<db, tally>>
    ELSE IF vote[vote_id].voting_system # "Approval"
    THEN result' = "NotApproval" /\ UNCHANGED <<db, tally>>
    ELSE /\ approval' =
                approval (+) SetToBag({ApprovalRow(vote_id, option_id, sender)})
         /\ vote_option' = set_vote_option_approvals_count(
                vote_option, option_id,
                saturating_add(vote_option[option_id].approvals_count, 1))
         /\ result' = "Ok"
         /\ UNCHANGED <<vote, sequence, judgment, mj_summary, tally>>


approve(sender, vote_id, option_id) ==
    IF ~vote_option_exists(option_id)
    THEN result' = "OptionNotFound" /\ UNCHANGED <<db, tally>>
    ELSE IF vote_option[option_id].vote_id # vote_id
    THEN result' = "OptionNotInVote" /\ UNCHANGED <<db, tally>>
    ELSE IF ~vote_exists(vote_id)
    THEN result' = "VoteNotFound" /\ UNCHANGED <<db, tally>>
    ELSE IF vote[vote_id].voting_system # "Approval"
    THEN result' = "NotApproval" /\ UNCHANGED <<db, tally>>
    ELSE IF BagIn(ApprovalRow(vote_id, option_id, sender), approval)
    THEN result' = "Ok" /\ UNCHANGED <<db, tally>>
    ELSE /\ approval' =
                approval (+) SetToBag({ApprovalRow(vote_id, option_id, sender)})
         /\ vote_option' = set_vote_option_approvals_count(
                vote_option, option_id,
                saturating_add(vote_option[option_id].approvals_count, 1))
         /\ result' = "Ok"
         /\ UNCHANGED <<vote, sequence, judgment, mj_summary, tally>>

\* faulty variant: the row is deleted and the counter is left as it was
unapprove_keeps_counter(sender, vote_id, option_id) ==
    IF ~vote_option_exists(option_id)
    THEN result' = "OptionNotFound" /\ UNCHANGED <<db, tally>>
    ELSE IF vote_option[option_id].vote_id # vote_id
    THEN result' = "OptionNotInVote" /\ UNCHANGED <<db, tally>>
    ELSE IF ~vote_exists(vote_id)
    THEN result' = "VoteNotFound" /\ UNCHANGED <<db, tally>>
    ELSE IF vote[vote_id].voting_system # "Approval"
    THEN result' = "NotApproval" /\ UNCHANGED <<db, tally>>
    ELSE IF BagIn(ApprovalRow(vote_id, option_id, sender), approval)
    THEN /\ approval' =
                approval (-) SetToBag({ApprovalRow(vote_id, option_id, sender)})
         /\ result' = "Ok"
         /\ UNCHANGED <<vote, sequence, vote_option, judgment, mj_summary, tally>>
    ELSE result' = "Ok" /\ UNCHANGED <<db, tally>>


unapprove(sender, vote_id, option_id) ==
    IF ~vote_option_exists(option_id)
    THEN result' = "OptionNotFound" /\ UNCHANGED <<db, tally>>
    ELSE IF vote_option[option_id].vote_id # vote_id
    THEN result' = "OptionNotInVote" /\ UNCHANGED <<db, tally>>
    ELSE IF ~vote_exists(vote_id)
    THEN result' = "VoteNotFound" /\ UNCHANGED <<db, tally>>
    ELSE IF vote[vote_id].voting_system # "Approval"
    THEN result' = "NotApproval" /\ UNCHANGED <<db, tally>>
    ELSE IF BagIn(ApprovalRow(vote_id, option_id, sender), approval)
    THEN /\ approval' =
                approval (-) SetToBag({ApprovalRow(vote_id, option_id, sender)})
         /\ vote_option' = set_vote_option_approvals_count(
                vote_option, option_id,
                saturating_sub(vote_option[option_id].approvals_count, 1))
         /\ result' = "Ok"
         /\ UNCHANGED <<vote, sequence, judgment, mj_summary, tally>>
    ELSE result' = "Ok" /\ UNCHANGED <<db, tally>>

\* the validation loop of set_approvals: the error of the first id that is
\* unknown or belongs to another vote, or "Ok"
RECURSIVE validate_option_ids(_, _)
validate_option_ids(vote_id, option_ids) ==
    IF option_ids = <<>> THEN "Ok"
    ELSE IF ~vote_option_exists(Head(option_ids)) THEN "OptionNotFound"
    ELSE IF vote_option[Head(option_ids)].vote_id # vote_id THEN "OptionNotInVote"
    ELSE validate_option_ids(vote_id, Tail(option_ids))

\* faulty variant: a removed approval does not lower the counter
apply_approval_diffs_no_decrement(sender, vote_id, to_add, to_remove) ==
    /\ approval' =
          (approval (-) SetToBag({ApprovalRow(vote_id, o, sender) : o \in to_remove}))
             (+) SetToBag({ApprovalRow(vote_id, o, sender) : o \in to_add})
    /\ vote_option' =
          [o \in DOMAIN vote_option |->
              IF o \in to_add
              THEN [vote_option[o] EXCEPT !.approvals_count =
                       saturating_add(vote_option[o].approvals_count, 1)]
              ELSE vote_option[o]]

\* the two loops of set_approvals.  to_remove and to_add are disjoint, so
\* the order in which the HashSets are walked does not change the outcome.
apply_approval_diffs(sender, vote_id, to_add, to_remove) ==
    /\ approval' =
          (approval (-) SetToBag({ApprovalRow(vote_id, o, sender) : o \in to_remove}))
             (+) SetToBag({ApprovalRow(vote_id, o, sender) : o \in to_add})
    /\ vote_option' =
          [o \in DOMAIN vote_option |->
              IF o \in to_remove
              THEN [vote_option[o] EXCEPT !.approvals_count =
                       saturating_sub(vote_option[o].approvals_count, 1)]
              ELSE IF o \in to_add
              THEN [vote_option[o] EXCEPT !.approvals_count =
                       saturating_add(vote_option[o].approvals_count, 1)]
              ELSE vote_option[o]]

\* faulty variant: the ids ahead of the first bad id are approved before the
\* error is returned
set_approvals_applies_then_fails(sender, vote_id, option_ids) ==
    IF ~vote_exists(vote_id)
    THEN result' = "VoteNotFound" /\ UNCHANGED <<db, tally>>
    ELSE IF vote[vote_id].voting_system # "Approval"
    THEN result' = "NotApproval" /\ UNCHANGED <<db, tally>>
    ELSE LET accepted ==
                 {option_ids[k] : k \in
                     {j \in DOMAIN option_ids :
                         validate_option_ids(vote_id, SubSeq(option_ids, 1, j)) = "Ok"}}
             desired == Range(option_ids)
             current == {a.option_id : a \in
                            {r \in BagToSet(approval) :
                                r.vote_id = vote_id /\ r.voter = sender}}
             diffs == compute_approval_diffs(current, desired)
         IN IF validate_option_ids(vote_id, option_ids) # "Ok"
            THEN /\ apply_approval_diffs(sender, vote_id, accepted \ current, {})
                 /\ result' = validate_option_ids(vote_id, option_ids)
                 /\ UNCHANGED <<vote, sequence, judgment, mj_summary, tally>>
            ELSE IF Cardinality(desired) > ApprovalCeiling
            THEN result' = "TooManyApprovals" /\ UNCHANGED <<db, tally>>
            ELSE /\ apply_approval_diffs(sender, vote_id,
                                         diffs.to_add, diffs.to_remove)
                 /\ result' = "Ok"
                 /\ UNCHANGED <<vote, sequence, judgment, mj_summary, tally>>


set_approvals(sender, vote_id, option_ids) ==
    IF ~vote_exists(vote_id)
    THEN result' = "VoteNotFound" /\ UNCHANGED <<db, tally>>
    ELSE IF vote[vote_id].voting_system # "Approval"
    THEN result' = "NotApproval" /\ UNCHANGED <<db, tally>>
    ELSE IF validate_option_ids(vote_id, option_ids) # "Ok"
    THEN result' = validate_option_ids(vote_id, option_ids)
         /\ UNCHANGED <<db, tally>>
    ELSE LET desired == Range(option_ids)
             current == {a.option_id : a \in
                            {r \in BagToSet(approval) :
                                r.vote_id = vote_id /\ r.voter = sender}}
             diffs == compute_approval_diffs(current, desired)
         IN IF Cardinality(desired) > ApprovalCeiling
            THEN result' = "TooManyApprovals" /\ UNCHANGED <<db, tally>>
            ELSE /\ apply_approval_diffs(sender, vote_id,
                                         diffs.to_add, diffs.to_remove)
                 /\ result' = "Ok"
                 /\ UNCHANGED <<vote, sequence, judgment, mj_summary, tally>>

(***************************************************************************)
(* Ballot submission controller for Majority Judgment                      *)
(* (servers/spacetimedb/src/judgment.rs; the summary with its majority and *)
(* second is the one of proto1/server/src/judgment.rs).                    *)
(***************************************************************************)
JudgmentRow(option_id, voter, mention) ==
    [option_id |-> option_id, voter |-> voter, mention |-> mention]

\* ctx.db.judgment().by_option().filter(option_id): the distinct rows
by_option(jud, option_id) == {r \in BagToSet(jud) : r.option_id = option_id}

\* ... .filter(|j| j.voter == ctx.sender)
by_option_and_voter(jud, option_id, sender) ==
    {r \in by_option(jud, option_id) : r.voter = sender}

\* the caller's rows over all options of the vote
judgments_of_voter(jud, vote_id, sender) ==
    UNION {by_option_and_voter(jud, o, sender) : o \in Range(get_vote_options(vote_id))}

\* counts_vec.iter().position(|c| c == counts).unwrap_or(0), 1-based
position(counts_vec, counts) ==
    IF \E j \in DOMAIN counts_vec : counts_vec[j] = counts
    THEN CHOOSE j \in DOMAIN counts_vec :
            /\ counts_vec[j] = counts
            /\ \A k \in 1..(j - 1) : counts_vec[k] # counts
    ELSE 1

\* faulty variant: a summary row is inserted when absent and never overwritten
recompute_mj_summary_insert_only(jud, summ, vote_id) ==
    LET options == get_vote_options(vote_id)
        counts_vec == [i \in DOMAIN options |->
                         [m \in Mention |->
                             add_assign_each(
                                 BagCount(jud, {r \in by_option(jud, options[i]) :
                                                   r.mention = m}))]]
        totals_vec == [i \in DOMAIN options |->
                         saturating_add_each(
                             BagCount(jud, by_option(jud, options[i])))]
        ms == compute_majorities_and_seconds(counts_vec)
        index_of(o) == CHOOSE i \in DOMAIN options : options[i] = o
        row(i) == [vote_id |-> vote_id,
                   total |-> totals_vec[position(counts_vec, counts_vec[i])],
                   counts |-> counts_vec[i],
                   majority |-> ms[i].majority,
                   second |-> ms[i].second]
    IN [o \in DOMAIN summ \cup Range(options) |->
           IF o \in DOMAIN summ THEN summ[o] ELSE row(index_of(o))]

\* faulty variant: only the first option of the vote gets its summary row
recompute_mj_summary_first_option_only(jud, summ, vote_id) ==
    LET options == get_vote_options(vote_id)
        counts_vec == [i \in DOMAIN options |->
                         [m \in Mention |->
                             add_assign_each(
                                 BagCount(jud, {r \in by_option(jud, options[i]) :
                                                   r.mention = m}))]]
        totals_vec == [i \in DOMAIN options |->
                         saturating_add_each(
                             BagCount(jud, by_option(jud, options[i])))]
        ms == compute_majorities_and_seconds(counts_vec)
        row(i) == [vote_id |-> vote_id,
                   total |-> totals_vec[position(counts_vec, counts_vec[i])],
                   counts |-> counts_vec[i],
                   majority |-> ms[i].majority,
                   second |-> ms[i].second]
    IN [o \in DOMAIN summ \cup {options[1]} |->
           IF o = options[1] THEN row(1) ELSE summ[o]]


\* faulty variant: a summary row that exists keeps its runner-up
recompute_mj_summary_keep_second(jud, summ, vote_id) ==
    LET options == get_vote_options(vote_id)
        counts_vec == [i \in DOMAIN options |->
                         [m \in Mention |->
                             add_assign_each(
                                 BagCount(jud, {r \in by_option(jud, options[i]) :
                                                   r.mention = m}))]]
        totals_vec == [i \in DOMAIN options |->
                         saturating_add_each(
                             BagCount(jud, by_option(jud, options[i])))]
        ms == compute_majorities_and_seconds(counts_vec)
        index_of(o) == CHOOSE i \in DOMAIN options : options[i] = o
        row(i) == [vote_id |-> vote_id,
                   total |-> totals_vec[position(counts_vec, counts_vec[i])],
                   counts |-> counts_vec[i],
                   majority |-> ms[i].majority,
                   second |-> IF options[i] \in DOMAIN summ
                              THEN summ[options[i]].second ELSE ms[i].second]
    IN [o \in DOMAIN summ \cup Range(options) |->
           IF o \in Range(options) THEN row(index_of(o)) ELSE summ[o]]


\* the tables after recompute_mj_summary_for_vote: every option of the vote
\* has its summary row inserted or overwritten
recompute_mj_summary_for_vote(jud, summ, vote_id) ==
    LET options == get_vote_options(vote_id)
        counts_vec == [i \in DOMAIN options |->
                         [m \in Mention |->
                             add_assign_each(
                                 BagCount(jud, {r \in by_option(jud, options[i]) :
                                                   r.mention = m}))]]
        totals_vec == [i \in DOMAIN options |->
                         saturating_add_each(
                             BagCount(jud, by_option(jud, options[i])))]
        ms == compute_majorities_and_seconds(counts_vec)
        index_of(o) == CHOOSE i \in DOMAIN options : options[i] = o
        row(i) == [vote_id |-> vote_id,
                   total |-> totals_vec[position(counts_vec, counts_vec[i])],
                   counts |-> counts_vec[i],
                   majority |-> ms[i].majority,
                   second |-> ms[i].second]
    IN [o \in DOMAIN summ \cup Range(options) |->
           IF o \in Range(options) THEN row(index_of(o)) ELSE summ[o]]

\* faulty variant: the first option of the vote is not seeded
seed_judgments_skip_first(jud, vote_id, sender) ==
    jud (+) SetToBag({JudgmentRow(o, sender, ToReject) :
                         o \in Range(Tail(get_vote_options(vote_id)))})

\* step 3 of cast_judgment: one row per option at the default mention
seed_judgments(jud, vote_id, sender) ==
    jud (+) SetToBag({JudgmentRow(o, sender, ToReject) :
                         o \in Range(get_vote_options(vote_id))})

\* faulty variant: the row is inserted without looking for an existing one
upsert_judgment_always_insert(jud, option_id, sender, mention) ==
    jud (+) SetToBag({JudgmentRow(option_id, sender, mention)})

\* step 4 of cast_judgment: update the caller's row in place, or insert it
upsert_judgment(jud, option_id, sender, mention) ==
    LET rows == by_option_and_voter(jud, option_id, sender) IN
    IF rows # {}
    THEN LET existing_judgment == CHOOSE r \in rows : TRUE IN
         IF existing_judgment.mention # mention
         THEN (jud (-) SetToBag({existing_judgment}))
                 (+) SetToBag({JudgmentRow(option_id, sender, mention)})
         ELSE jud
    ELSE jud (+) SetToBag({JudgmentRow(option_id, sender, mention)})

cast_judgment(sender, option_id, mention) ==
    IF ~vote_option_exists(option_id)
    THEN result' = "OptionNotFound" /\ UNCHANGED <<db, tally>>
    ELSE IF ~vote_exists(vote_option[option_id].vote_id)
    THEN result' = "ParentVoteNotFound" /\ UNCHANGED <<db, tally>>
    ELSE IF vote[vote_option[option_id].vote_id].voting_system # "MajorityJudgment"
    THEN result' = "NotMajorityJudgment" /\ UNCHANGED <<db, tally>>
    ELSE LET vote_id == vote_option[option_id].vote_id
             first == judgments_of_voter(judgment, vote_id, sender) = {}
             seeded == IF first THEN seed_judgments(judgment, vote_id, sender)
                       ELSE judgment
             summary1 == IF first
                         THEN recompute_mj_summary_for_vote(seeded, mj_summary, vote_id)
                         ELSE mj_summary
             cast == upsert_judgment(seeded, option_id, sender, mention)
         IN /\ judgment' = cast
            /\ mj_summary' = recompute_mj_summary_for_vote(cast, summary1, vote_id)
            /\ result' = "Ok"
            /\ UNCHANGED <<vote, sequence, vote_option, approval, tally>>

\* the additions of recompute_mj_summary_for_vote that overflow for the
\* rows jud: counts[k] += 1 on a count that is u32::MAX, c.iter().sum() over
\* counts that add up to more than u32::MAX, total + 1 on a total that is
\* u32::MAX
recompute_overflows(jud, vote_id) ==
    \E o \in Range(get_vote_options(vote_id)) :
        \/ \E m \in Mention :
              BagCount(jud, {r \in by_option(jud, o) : r.mention = m}) > CountMax
        \/ BagCount(jud, by_option(jud, o)) > CountMax
        \/ BagCount(jud, by_option(jud, o)) = CountMax

\* cast_judgment in a build with overflow checks, when an addition of the
\* recompute overflows: the reducer panics and its transaction is rolled
\* back
cast_judgment_panics(sender, option_id, mention) ==
    /\ vote_option_exists(option_id)
    /\ vote_exists(vote_option[option_id].vote_id)
    /\ vote[vote_option[option_id].vote_id].voting_system = "MajorityJudgment"
    /\ LET vote_id == vote_option[option_id].vote_id
           first == judgments_of_voter(judgment, vote_id, sender) = {}
           seeded == IF first THEN seed_judgments(judgment, vote_id, sender)
                     ELSE judgment
           cast == upsert_judgment(seeded, option_id, sender, mention)
       IN recompute_overflows(seeded, vote_id) \/ recompute_overflows(cast, vote_id)
    /\ result' = "Panic"
    /\ UNCHANGED <<db, tally>>


\* faulty variant: the rows of every voter are deleted
delete_judgments_of_every_voter(jud, vote_id, sender) ==
    BagWithout(jud, UNION {by_option(jud, o) : o \in Range(get_vote_options(vote_id))})

\* faulty variant: only the rows for the first option are deleted
delete_judgments_first_option_only(jud, vote_id, sender) ==
    BagWithout(jud, by_option_and_voter(jud, Head(get_vote_options(vote_id)), sender))

\* faulty variant: no row is deleted
delete_judgments_of_nobody(jud, vote_id, sender) == jud

\* faulty variant: the caller's rows are deleted whatever their vote
delete_judgments_of_voter_in_every_vote(jud, vote_id, sender) ==
    BagWithout(jud, {r \in BagToSet(jud) : r.voter = sender})


\* the delete loop of withdraw_judgments and of step 5 of
\* submit_complete_judgment_ballot: every row of the caller, all copies
delete_judgments_of_voter(jud, vote_id, sender) ==
    BagWithout(jud, judgments_of_voter(jud, vote_id, sender))

\* faulty variant: the voting system of the vote is not looked at
withdraw_judgments_no_method_check(sender, vote_id) ==
    IF ~vote_exists(vote_id)
    THEN result' = "VoteNotFound" /\ UNCHANGED <<db, tally>>
    ELSE LET left == delete_judgments_of_voter(judgment, vote_id, sender)
         IN /\ judgment' = left
            /\ mj_summary' = recompute_mj_summary_for_vote(left, mj_summary, vote_id)
            /\ result' = "Ok"
            /\ UNCHANGED <<vote, sequence, vote_option, approval, tally>>


withdraw_judgments(sender, vote_id) ==
    IF ~vote_exists(vote_id)
    THEN result' = "VoteNotFound" /\ UNCHANGED <<db, tally>>
    ELSE IF vote[vote_id].voting_system # "MajorityJudgment"
    THEN result' = "NotMajorityJudgment" /\ UNCHANGED <<db, tally>>
    ELSE LET left == delete_judgments_of_voter(judgment, vote_id, sender)
         IN /\ judgment' = left
            /\ mj_summary' = recompute_mj_summary_for_vote(left, mj_summary, vote_id)
            /\ result' = "Ok"
            /\ UNCHANGED <<vote, sequence, vote_option, approval, tally>>

\* step 4 of submit_complete_judgment_ballot: seen_ids.insert fails
has_duplicate_option(judgments) ==
    \E i, j \in DOMAIN judgments :
        i < j /\ judgments[i].option_id = judgments[j].option_id

\* faulty variant: the duplicate check is left out
validate_ballot_no_duplicate_check(vote_id, judgments) ==
    LET options == get_vote_options(vote_id) IN
    IF Len(judgments) # Len(options) THEN "IncompleteBallot"
    ELSE IF \E i \in DOMAIN judgments :
               judgments[i].option_id \notin Range(options)
    THEN "OptionNotInVote"
    ELSE "Ok"

\* faulty variant: the completeness check is left out
validate_ballot_no_count_check(vote_id, judgments) ==
    LET options == get_vote_options(vote_id) IN
    IF \E i \in DOMAIN judgments :
          judgments[i].option_id \notin Range(options)
    THEN "OptionNotInVote"
    ELSE IF has_duplicate_option(judgments) THEN "DuplicateJudgment"
    ELSE "Ok"

\* steps 2 to 4 of submit_complete_judgment_ballot: the first failure
\* faulty variant: the options are looked up before the entries are counted
validate_ballot_options_first(vote_id, judgments) ==
    LET options == get_vote_options(vote_id) IN
    IF \E i \in DOMAIN judgments :
          judgments[i].option_id \notin Range(options)
    THEN "OptionNotInVote"
    ELSE IF Len(judgments) # Len(options) THEN "IncompleteBallot"
    ELSE IF has_duplicate_option(judgments) THEN "DuplicateJudgment"
    ELSE "Ok"


validate_ballot(vote_id, judgments) ==
    LET options == get_vote_options(vote_id) IN
    IF Len(judgments) # Len(options) THEN "IncompleteBallot"
    ELSE IF \E i \in DOMAIN judgments :
               judgments[i].option_id \notin Range(options)
    THEN "OptionNotInVote"
    ELSE IF has_duplicate_option(judgments) THEN "DuplicateJudgment"
    ELSE "Ok"

\* step 6 of submit_complete_judgment_ballot: one insert per entry
RECURSIVE insert_judgments(_, _, _)
insert_judgments(jud, sender, judgments) ==
    IF judgments = <<>> THEN jud
    ELSE insert_judgments(
             jud (+) SetToBag({JudgmentRow(Head(judgments).option_id, sender,
                                           Head(judgments).mention)}),
             sender, Tail(judgments))

submit_complete_judgment_ballot(sender, vote_id, judgments) ==
    IF ~vote_exists(vote_id)
    THEN result' = "VoteNotFound" /\ UNCHANGED <<db, tally>>
    ELSE IF vote[vote_id].voting_system # "MajorityJudgment"
    THEN result' = "NotMajorityJudgment" /\ UNCHANGED <<db, tally>>
    ELSE IF validate_ballot(vote_id, judgments) # "Ok"
    THEN result' = validate_ballot(vote_id, judgments) /\ UNCHANGED <<db, tally>>
    ELSE LET left == delete_judgments_of_voter(judgment, vote_id, sender)
             cast == insert_judgments(left, sender, judgments)
         IN /\ judgment' = cast
            /\ mj_summary' = recompute_mj_summary_for_vote(cast, mj_summary, vote_id)
            /\ result' = "Ok"
            /\ UNCHANGED <<vote, sequence, vote_option, approval, tally>>

(***************************************************************************)
(* create_vote (vote.rs, utils.rs).  A string is the sequence of its       *)
(* characters.  The title, the creation time and the share token of a vote *)
(* row are left out; the token loop ends with a token that no vote holds.  *)
(***************************************************************************)
MAX_OPTIONS == 20
MaxLabelLen == 200

ENABLE_PUBLIC_VOTES == TRUE
ENABLE_UNLISTED_VOTES == FALSE
ENABLE_PRIVATE_VOTES == FALSE
ENABLE_APPROVAL_VOTING == TRUE
ENABLE_MAJORITY_JUDGMENT == TRUE

VISIBILITY_PUBLIC == 0
VISIBILITY_UNLISTED == 1
VISIBILITY_PRIVATE == 2

\* Result<T, String>
Ok(value) == [ok |-> TRUE, value |-> value]
Err(error) == [ok |-> FALSE, error |-> error]

\* Option::unwrap_or
unwrap_or(option, default) == IF option = None THEN default ELSE option[1]

RECURSIVE trim_start(_)
trim_start(s) ==
    IF s # <<>> /\ Head(s) = " " THEN trim_start(Tail(s)) ELSE s

RECURSIVE trim_end(_)
trim_end(s) ==
    IF s # <<>> /\ s[Len(s)] = " "
    THEN trim_end(SubSeq(s, 1, Len(s) - 1)) ELSE s

\* str::trim
trim(s) == trim_end(trim_start(s))

\* char::to_lowercase for the characters of the model
lowercase_char(c) ==
    CASE c = "A" -> "a" [] c = "B" -> "b" [] c = "C" -> "c" [] OTHER -> c

\* str::to_lowercase
to_lowercase(s) == [i \in DOMAIN s |-> lowercase_char(s[i])]

normalize_label(s) ==
    LET t == trim(s)
    IN IF t = <<>> THEN Err("EmptyString")
       ELSE IF Len(t) > MaxLabelLen THEN Err("StringTooLong")
       ELSE Ok(t)

RECURSIVE clean_loop(_, _, _)
\* the for loop of validate_and_clean_options over the options left
clean_loop(options, seen_lower, cleaned) ==
    IF options = <<>> THEN Ok(cleaned)
    ELSE LET o == normalize_label(Head(options)) IN
         IF ~o.ok THEN o
         ELSE LET key == to_lowercase(o.value) IN
              IF key \notin seen_lower
              THEN clean_loop(Tail(options), seen_lower \cup {key},
                              Append(cleaned, o.value))
              ELSE clean_loop(Tail(options), seen_lower, cleaned)

\* faulty variant: nothing is cut
truncate_nothing(v, len) == v

\* Vec::truncate
truncate(v, len) == IF Len(v) > len THEN SubSeq(v, 1, len) ELSE v

validate_and_clean_options(options) ==
    IF options = <<>> THEN Err("AtLeastTwoOptions")
    ELSE LET cleaned == clean_loop(options, {}, <<>>) IN
         IF ~cleaned.ok THEN cleaned
         ELSE IF Len(cleaned.value) < 2 THEN Err("AtLeastTwoUniqueOptions")
         ELSE IF Len(cleaned.value) > MAX_OPTIONS
         THEN Ok(truncate(cleaned.value, MAX_OPTIONS))
         ELSE cleaned

\* the match on vis: the arm taken returns an error
visibility_not_enabled(vis) ==
    \/ vis = VISIBILITY_PUBLIC /\ ~ENABLE_PUBLIC_VOTES
    \/ vis = VISIBILITY_UNLISTED /\ ~ENABLE_UNLISTED_VOTES
    \/ vis = VISIBILITY_PRIVATE /\ ~ENABLE_PRIVATE_VOTES

\* the match on system: the arm taken returns an error
voting_system_not_enabled(system) ==
    \/ system = "Approval" /\ ~ENABLE_APPROVAL_VOTING
    \/ system = "MajorityJudgment" /\ ~ENABLE_MAJORITY_JUDGMENT

\* the id that the auto_inc column of a table gives to the next row: the
\* value of the table's sequence, which a deleted row does not give back
auto_inc(table) == sequence[table]

create_vote(sender, title, options, visibility, voting_system) ==
    LET cleaned == validate_and_clean_options(options)
        vis == unwrap_or(visibility, VISIBILITY_PUBLIC)
        system == unwrap_or(voting_system, "Approval")
        vote_id == auto_inc("vote")
        first == auto_inc("vote_option")
    IN IF ~normalize_label(title).ok
       THEN result' = normalize_label(title).error /\ UNCHANGED <<db, tally>>
       ELSE IF ~cleaned.ok
       THEN result' = cleaned.error /\ UNCHANGED <<db, tally>>
       ELSE IF visibility_not_enabled(vis)
       THEN result' = "VisibilityNotEnabled" /\ UNCHANGED <<db, tally>>
       ELSE IF voting_system_not_enabled(system)
       THEN result' = "VotingSystemNotEnabled" /\ UNCHANGED <<db, tally>>
       ELSE /\ vote' = vote @@ (vote_id :> [creator |-> sender,
                                            visibility |-> vis,
                                            voting_system |-> system])
            /\ vote_option' =
                  vote_option @@
                     [o \in first..(first + Len(cleaned.value) - 1) |->
                         [vote_id |-> vote_id,
                          label |-> cleaned.value[o - first + 1],
                          approvals_count |-> 0,
                          order_index |-> o - first]]
            /\ sequence' = [vote |-> vote_id + 1,
                             vote_option |-> first + Len(cleaned.value)]
            /\ result' = "Ok"
            /\ UNCHANGED <<approval, judgment, mj_summary, tally>>


(***************************************************************************)
(* delete_vote (vote.rs).                                                  *)
(***************************************************************************)
\* a table (a function from keys to rows) without the rows that match
Restrict(table, keep(_)) == [k \in {j \in DOMAIN table : keep(j)} |-> table[k]]

\* faulty variant: the judgment rows of the options stay
delete_judgments_of_no_option(jud, options) == jud

\* the inner loop of delete_vote: by_option().filter(opt.id) for every
\* option of the vote, all copies
delete_judgments_of_options(jud, options) ==
    BagWithout(jud, {r \in BagToSet(jud) : r.option_id \in options})

\* faulty variant: the creator of the vote is not compared with the caller
delete_vote_by_anyone(sender, vote_id) ==
    IF ~vote_exists(vote_id)
    THEN result' = "VoteNotFound" /\ UNCHANGED <<db, tally>>
    ELSE LET options == Range(get_vote_options(vote_id))
         IN /\ mj_summary' =
                  Restrict(mj_summary, LAMBDA o : mj_summary[o].vote_id # vote_id)
            /\ approval' =
                  BagWithout(approval,
                             {r \in BagToSet(approval) : r.vote_id = vote_id})
            /\ judgment' = delete_judgments_of_options(judgment, options)
            /\ vote_option' = Restrict(vote_option, LAMBDA o : o \notin options)
            /\ vote' = Restrict(vote, LAMBDA v : v # vote_id)
            /\ result' = "Ok"
            /\ UNCHANGED <<sequence, tally>>


delete_vote(sender, vote_id) ==
    IF ~vote_exists(vote_id)
    THEN result' = "VoteNotFound" /\ UNCHANGED <<db, tally>>
    ELSE IF vote[vote_id].creator # sender
    THEN result' = "NotCreator" /\ UNCHANGED <<db, tally>>
    ELSE LET options == Range(get_vote_options(vote_id))
         IN /\ mj_summary' =
                  Restrict(mj_summary, LAMBDA o : mj_summary[o].vote_id # vote_id)
            /\ approval' =
                  BagWithout(approval,
                             {r \in BagToSet(approval) : r.vote_id = vote_id})
            /\ judgment' = delete_judgments_of_options(judgment, options)
            /\ vote_option' = Restrict(vote_option, LAMBDA o : o \notin options)
            /\ vote' = Restrict(vote, LAMBDA v : v # vote_id)
            /\ result' = "Ok"
            /\ UNCHANGED <<sequence, tally>>


(***************************************************************************)
(* Initial states.  The database holds two votes made by create_vote: vote *)
(* 1 uses Majority Judgment and has the options 1, 2, 3; vote 2 uses       *)
(* Approval and has the options 4, 5, 6.  No ballot has been cast.         *)
(***************************************************************************)
MJVote == 1
ApprovalVote == 2

InitTables ==
    /\ vote = (MJVote :> [creator |-> 1, voting_system |-> "MajorityJudgment"])
              @@ (ApprovalVote :> [creator |-> 1, voting_system |-> "Approval"])
    /\ vote_option = [o \in 1..6 |->
                         [vote_id |-> IF o <= 3 THEN MJVote ELSE ApprovalVote,
                          approvals_count |-> 0]]
    /\ approval = EmptyBag
    /\ judgment = EmptyBag
    /\ mj_summary = <<>>
    /\ sequence = [vote |-> 3, vote_option |-> 7]
    /\ result = "Init"

\* a reducer call: the reducer's name, ctx.sender and the arguments (the
\* arguments a reducer does not take are left at 0 and <<>>)
Call(op, sender, vote_id, option_id, mention, list) ==
    [op |-> op, sender |-> sender, vote_id |-> vote_id,
     option_id |-> option_id, mention |-> mention, list |-> list]

\* the tables that the reducers write
Tables ==
    [vote |-> vote, vote_option |-> vote_option, approval |-> approval,
     judgment |-> judgment, mj_summary |-> mj_summary]

\* no withdrawal came just before the last call
NoPrior == [op |-> "none", sender |-> 0, vote_id |-> 0, judgment |-> EmptyBag]

Init ==
    /\ InitTables
    /\ counts_list = <<>>
    /\ majorities_seconds = <<>>
    /\ call = Call("none", 0, 0, 0, 0, <<>>)
    /\ before = Tables
    /\ prior = NoPrior

(***************************************************************************)
(* Inputs of the reducers.  Vote 3 and option 7 do not exist.              *)
(***************************************************************************)
VoteIdInputs == {MJVote, ApprovalVote, 3}

\* mentions cast by the voters of the database specifications
MentionInputs == {ToReject, Good}

\* (vote_id, option_id) of approve and unapprove: the options of the
\* Approval vote, an option of the other vote, an unknown option, the
\* Majority Judgment vote with an option of its own, a missing vote
ApproveInputs ==
    ({ApprovalVote} \X {4, 5, 6, 1, 7}) \cup {<<MJVote, 1>>, <<MJVote, 4>>, <<3, 4>>}

\* option_ids of set_approvals: lists that are valid (with and without a
\* repeated id), empty, or hold an id of the other vote or of no option
ApprovalIdInputs ==
    {<<>>, <<4>>, <<5>>, <<4, 5>>, <<5, 6>>, <<6, 4, 6>>, <<4, 5, 6>>,
     <<4, 1>>, <<7, 1>>, <<5, 7>>}

SetApprovalsInputs ==
    ({ApprovalVote} \X ApprovalIdInputs) \cup {<<MJVote, <<1>>>>, <<3, <<4>>>>}

\* option_id of cast_judgment
CastOptionInputs == {1, 2, 3, 4, 7}

Ballot(ids, ms) == [i \in DOMAIN ids |-> [option_id |-> ids[i], mention |-> ms[i]]]

\* complete ballots for the Majority Judgment vote, in two entry orders
CompleteBallots ==
    {Ballot(ids, ms) : ids \in {<<1, 2, 3>>, <<3, 1, 2>>},
                       ms \in [1..3 -> MentionInputs]}

\* ballots that are too short, too long, empty, hold an option of the other
\* vote or an unknown option, or repeat an option
RejectedBallots ==
    {Ballot(ids, [i \in DOMAIN ids |-> Good]) :
        ids \in {<<1, 2>>, <<1, 2, 3, 3>>, <<>>, <<1, 2, 4>>, <<7, 2, 3>>,
                 <<1, 1, 2>>, <<4, 4, 1>>, <<2, 4>>}}

\* (vote_id, judgments) of submit_complete_judgment_ballot
SubmitInputs ==
    ({MJVote} \X (CompleteBallots \cup RejectedBallots))
       \cup ({ApprovalVote, 3} \X {Ballot(<<4, 5, 6>>, <<Good, Good, Good>>)})

NextApproval ==
    \E sender \in Voters :
        \/ \E in \in ApproveInputs :
              approve(sender, in[1], in[2]) /\ UNCHANGED hist
        \/ \E in \in ApproveInputs :
              unapprove(sender, in[1], in[2]) /\ UNCHANGED hist
        \/ \E in \in SetApprovalsInputs :
              set_approvals(sender, in[1], in[2]) /\ UNCHANGED hist

NextJudgment ==
    \E sender \in Voters :
        \/ \E option_id \in CastOptionInputs, mention \in MentionInputs :
              cast_judgment(sender, option_id, mention) /\ UNCHANGED hist
        \/ \E vote_id \in VoteIdInputs :
              withdraw_judgments(sender, vote_id) /\ UNCHANGED hist
        \/ \E in \in SubmitInputs :
              submit_complete_judgment_ballot(sender, in[1], in[2])
                 /\ UNCHANGED hist

NextTally ==
    \/ TallyAddOption /\ UNCHANGED hist
    \/ \E i \in DOMAIN counts_list, m \in Mention :
          TallyAddBallot(i, m) /\ UNCHANGED hist

\* the approval reducers on option 4 only, and their errors
NextApprovalSmall ==
    \E sender \in Voters :
        \/ \E in \in {i \in ApproveInputs : i[2] \notin {5, 6}} :
              approve(sender, in[1], in[2]) /\ UNCHANGED hist
        \/ \E in \in {i \in ApproveInputs : i[2] \notin {5, 6}} :
              unapprove(sender, in[1], in[2]) /\ UNCHANGED hist
        \/ \E in \in {i \in SetApprovalsInputs : Range(i[2]) \cap {5, 6} = {}} :
              set_approvals(sender, in[1], in[2]) /\ UNCHANGED hist

\* the batches that leave option 3 at the default mention
SubmitInputsSmall ==
    {i \in SubmitInputs :
        \A k \in DOMAIN i[2] :
            i[2][k].option_id = 3 => i[2][k].mention = ToReject}

\* the judgment reducers with option 3 left at the default mention, and
\* their errors
NextJudgmentSmall ==
    \E sender \in Voters :
        \/ \E option_id \in CastOptionInputs \ {3}, mention \in MentionInputs :
              cast_judgment(sender, option_id, mention) /\ UNCHANGED hist
        \/ \E vote_id \in VoteIdInputs :
              withdraw_judgments(sender, vote_id) /\ UNCHANGED hist
        \/ \E in \in SubmitInputsSmall :
              submit_complete_judgment_ballot(sender, in[1], in[2])
                 /\ UNCHANGED hist

Next == NextApprovalSmall \/ NextJudgmentSmall

\* all six ballot reducers, called by any voter in any order
Spec == Init /\ [][Next]_vars

\* approve, unapprove and set_approvals only
SpecApproval == Init /\ [][NextApproval]_vars

\* cast_judgment, withdraw_judgments and submit_complete_judgment_ballot only
SpecJudgment == Init /\ [][NextJudgment]_vars

\* the aggregator applied to count arrays
SpecTally == Init /\ [][NextTally]_vars

(***************************************************************************)
(* The reducers with a record of each call: the call and the tables as the *)
(* call found them are kept next to the tables as the call left them.      *)
(***************************************************************************)
Record(op, sender, vote_id, option_id, mention, list) ==
    /\ call' = Call(op, sender, vote_id, option_id, mention, list)
    /\ before' = Tables
    /\ prior' = prior

NextJudgmentCalls ==
    \E sender \in Voters :
        \/ \E option_id \in CastOptionInputs \ {3}, mention \in MentionInputs :
              /\ cast_judgment(sender, option_id, mention)
              /\ Record("cast_judgment", sender, 0, option_id, mention, <<>>)
        \/ \E vote_id \in VoteIdInputs :
              /\ withdraw_judgments(sender, vote_id)
              /\ Record("withdraw_judgments", sender, vote_id, 0, 0, <<>>)
        \/ \E in \in SubmitInputsSmall :
              /\ submit_complete_judgment_ballot(sender, in[1], in[2])
              /\ Record("submit_complete_judgment_ballot", sender, in[1], 0, 0,
                        in[2])

NextApprovalCalls ==
    \E sender \in Voters :
        \/ \E in \in ApproveInputs :
              /\ approve(sender, in[1], in[2])
              /\ Record("approve", sender, in[1], in[2], 0, <<>>)
        \/ \E in \in ApproveInputs :
              /\ unapprove(sender, in[1], in[2])
              /\ Record("unapprove", sender, in[1], in[2], 0, <<>>)
        \/ \E in \in SetApprovalsInputs :
              /\ set_approvals(sender, in[1], in[2])
              /\ Record("set_approvals", sender, in[1], 0, 0, in[2])

\* the last call, when it was a successful withdraw_judgments: the caller,
\* the vote and the judgment rows the call found
LastWithdrawal ==
    IF call.op = "withdraw_judgments" /\ result = "Ok"
    THEN [op |-> call.op, sender |-> call.sender, vote_id |-> call.vote_id,
          judgment |-> before.judgment]
    ELSE NoPrior

\* as Record, and the call before this one is kept when it was a withdrawal
RecordAfter(op, sender, vote_id, option_id, mention, list) ==
    /\ call' = Call(op, sender, vote_id, option_id, mention, list)
    /\ before' = Tables
    /\ prior' = LastWithdrawal

\* the calls that succeed: casts on the options 1 and 2, withdrawals from
\* the Majority Judgment vote, complete batches in the order of the options
NextWithdrawCast ==
    \E sender \in Voters :
        \/ \E option_id \in {1, 2}, mention \in MentionInputs :
              /\ cast_judgment(sender, option_id, mention)
              /\ RecordAfter("cast_judgment", sender, 0, option_id, mention, <<>>)
        \/ \E vote_id \in {MJVote} :
              /\ withdraw_judgments(sender, vote_id)
              /\ RecordAfter("withdraw_judgments", sender, vote_id, 0, 0, <<>>)
        \/ \E in \in {i \in SubmitInputsSmall :
                        /\ i[1] = MJVote
                        /\ Len(i[2]) = 3
                        /\ \A k \in 1..3 : i[2][k].option_id = k} :
              /\ submit_complete_judgment_ballot(sender, in[1], in[2])
              /\ RecordAfter("submit_complete_judgment_ballot", sender, in[1],
                             0, 0, in[2])

\* the judgment reducers, each call recorded together with a withdrawal
\* that came just before it
SpecWithdrawCast == Init /\ [][NextWithdrawCast]_vars

\* cast_judgment, withdraw_judgments and submit_complete_judgment_ballot,
\* each call recorded
SpecJudgmentCalls == Init /\ [][NextJudgmentCalls]_vars

\* approve, unapprove and set_approvals, each call recorded
SpecApprovalCalls == Init /\ [][NextApprovalCalls]_vars

(***************************************************************************)
(* Two votes of each voting system.  The votes 3 and 4 were created and    *)
(* deleted, so that vote 3 and option 7 are still unknown identifiers.     *)
(***************************************************************************)
MJVoteB == 5
ApprovalVoteB == 6

InitCrossVote ==
    /\ vote = [v \in {MJVote, ApprovalVote, MJVoteB, ApprovalVoteB} |->
                  [creator |-> IF v = ApprovalVote THEN 2 ELSE 1,
                   voting_system |-> IF v \in {MJVote, MJVoteB}
                                     THEN "MajorityJudgment" ELSE "Approval"]]
    /\ vote_option = [o \in (1..6) \cup (11..14) |->
                         [vote_id |-> IF o <= 3 THEN MJVote
                                      ELSE IF o <= 6 THEN ApprovalVote
                                      ELSE IF o <= 12 THEN MJVoteB
                                      ELSE ApprovalVoteB,
                          approvals_count |-> 0]]
    /\ approval = EmptyBag
    /\ judgment = EmptyBag
    /\ mj_summary = <<>>
    /\ sequence = [vote |-> 7, vote_option |-> 15]
    /\ result = "Init"
    /\ counts_list = <<>>
    /\ majorities_seconds = <<>>
    /\ call = Call("none", 0, 0, 0, 0, <<>>)
    /\ before = Tables
    /\ prior = NoPrior

\* option_id of cast_judgment: an option of each Majority Judgment vote, an
\* option of an Approval vote, an unknown option
CrossCastInputs == {1, 11, 4, 7}

\* vote_id of withdraw_judgments
CrossWithdrawInputs == {MJVote, MJVoteB, ApprovalVote, 3}

\* (vote_id, judgments) of submit_complete_judgment_ballot: a complete batch
\* for each Majority Judgment vote, a short batch, a batch naming the
\* options of the other Majority Judgment vote, a batch for an Approval vote
CrossSubmitInputs ==
    {<<MJVote, Ballot(<<1, 2, 3>>, <<Good, ToReject, ToReject>>)>>,
     <<MJVoteB, Ballot(<<11, 12>>, <<Good, ToReject>>)>>,
     <<MJVote, Ballot(<<1, 2>>, <<Good, Good>>)>>,
     <<MJVoteB, Ballot(<<1, 2>>, <<Good, Good>>)>>,
     <<ApprovalVote, Ballot(<<4, 5, 6>>, <<Good, Good, Good>>)>>}

\* (vote_id, option_id) of approve and unapprove: an option of each Approval
\* vote, a Majority Judgment vote with an option of its own, an option of
\* another vote
CrossApproveInputs ==
    {<<ApprovalVote, 4>>, <<ApprovalVoteB, 13>>, <<MJVote, 1>>,
     <<ApprovalVote, 1>>, <<ApprovalVoteB, 4>>}

\* (vote_id, option_ids) of set_approvals
CrossSetApprovalsInputs ==
    {<<ApprovalVote, <<4>>>>, <<ApprovalVote, <<>>>>, <<ApprovalVoteB, <<13>>>>,
     <<ApprovalVoteB, <<>>>>, <<MJVote, <<1>>>>, <<ApprovalVoteB, <<4>>>>}

\* the votes a voter takes part in: everybody in the votes 1 and 2, voter 1
\* alone in the votes 5 and 6
TakesPart(sender, vote_id) ==
    vote_id \in {MJVoteB, ApprovalVoteB} => sender = 1

NextCrossVote ==
    \E sender \in Voters :
        \/ \E option_id \in CrossCastInputs :
              /\ option_id = 11 => sender = 1
              /\ cast_judgment(sender, option_id, Good)
              /\ Record("cast_judgment", sender, 0, option_id, Good, <<>>)
        \/ \E vote_id \in CrossWithdrawInputs :
              /\ TakesPart(sender, vote_id)
              /\ withdraw_judgments(sender, vote_id)
              /\ Record("withdraw_judgments", sender, vote_id, 0, 0, <<>>)
        \/ \E in \in CrossSubmitInputs :
              /\ TakesPart(sender, in[1])
              /\ submit_complete_judgment_ballot(sender, in[1], in[2])
              /\ Record("submit_complete_judgment_ballot", sender, in[1], 0, 0,
                        in[2])
        \/ \E in \in CrossApproveInputs :
              /\ TakesPart(sender, in[1])
              /\ approve(sender, in[1], in[2])
              /\ Record("approve", sender, in[1], in[2], 0, <<>>)
        \/ \E in \in CrossApproveInputs :
              /\ TakesPart(sender, in[1])
              /\ unapprove(sender, in[1], in[2])
              /\ Record("unapprove", sender, in[1], in[2], 0, <<>>)
        \/ \E in \in CrossSetApprovalsInputs :
              /\ TakesPart(sender, in[1])
              /\ set_approvals(sender, in[1], in[2])
              /\ Record("set_approvals", sender, in[1], 0, 0, in[2])

\* all six ballot reducers over two votes of each voting system, each call
\* recorded
SpecCrossVote == InitCrossVote /\ [][NextCrossVote]_vars


\* vote_id of delete_vote: the four votes and an unknown vote
DeleteVoteInputs == {MJVote, ApprovalVote, MJVoteB, ApprovalVoteB, 3}

\* ballots cast in the four votes, and votes deleted
NextDeleteVote ==
    \E sender \in Voters :
        \/ \E option_id \in {1, 11} :
              /\ option_id = 11 => sender = 1
              /\ cast_judgment(sender, option_id, Good)
              /\ Record("cast_judgment", sender, 0, option_id, Good, <<>>)
        \/ \E in \in {<<ApprovalVote, 4>>, <<ApprovalVoteB, 13>>} :
              /\ TakesPart(sender, in[1])
              /\ approve(sender, in[1], in[2])
              /\ Record("approve", sender, in[1], in[2], 0, <<>>)
        \/ \E vote_id \in DeleteVoteInputs :
              /\ delete_vote(sender, vote_id)
              /\ Record("delete_vote", sender, vote_id, 0, 0, <<>>)

\* delete_vote on votes that hold ballots, each call recorded
SpecDeleteVote == InitCrossVote /\ [][NextDeleteVote]_vars


(***************************************************************************)
(* Counting up to u32::MAX: one voter after the other casts a judgment on  *)
(* option 1 (the worst grade first, then Good) or approves option 4; the   *)
(* voter who cast last may withdraw.                                       *)
(***************************************************************************)
CountVoters == 1..(CountMax + 2)

\* the voter who has not cast yet, and the grades left to that voter
NextToCast(sender, mention) ==
    /\ sender = BagCount(judgment, by_option(judgment, 1)) + 1
    /\ mention = ToReject =>
          \A r \in by_option(judgment, 1) : r.mention = ToReject

NextCounting ==
    \E sender \in CountVoters :
        \/ \E mention \in MentionInputs :
              /\ NextToCast(sender, mention)
              /\ cast_judgment(sender, 1, mention)
              /\ Record("cast_judgment", sender, 0, 1, mention, <<>>)
        \/ \E mention \in MentionInputs :
              /\ NextToCast(sender, mention)
              /\ cast_judgment_panics(sender, 1, mention)
              /\ Record("cast_judgment", sender, 0, 1, mention, <<>>)
        \/ /\ sender = BagCount(judgment, by_option(judgment, 1))
           /\ withdraw_judgments(sender, MJVote)
           /\ Record("withdraw_judgments", sender, MJVote, 0, 0, <<>>)
        \/ /\ sender = BagCount(approval, BagToSet(approval)) + 1
           /\ approve(sender, ApprovalVote, 4)
           /\ Record("approve", sender, ApprovalVote, 4, 0, <<>>)

\* cast_judgment, withdraw_judgments and approve called by more voters than
\* u32::MAX, each call recorded
SpecCounting == Init /\ [][NextCounting]_vars


(***************************************************************************)
(* Votes created in an empty database.                                     *)
(***************************************************************************)
InitEmpty ==
    /\ vote = <<>>
    /\ vote_option = <<>>
    /\ approval = EmptyBag
    /\ judgment = EmptyBag
    /\ mj_summary = <<>>
    /\ sequence = [vote |-> 1, vote_option |-> 1]
    /\ result = "Init"
    /\ counts_list = <<>>
    /\ majorities_seconds = <<>>
    /\ call = Call("none", 0, 0, 0, 0, <<>>)
    /\ before = Tables
    /\ prior = NoPrior

Letters == <<"a", "b", "c", "d", "e">>

\* n labels of two letters, no two of them equal: aa, ab, ..., ae, ba, ...
Labels(n) ==
    [i \in 1..n |-> <<Letters[((i - 1) \div 5) + 1], Letters[((i - 1) % 5) + 1]>>]

\* a label of n characters
LongLabel(n) == [i \in 1..n |-> "a"]

\* options of create_vote: no option, one option, an option of spaces, the
\* same label in two casings, labels to trim, repeated labels, a label of
\* the greatest length and one longer, MAX_OPTIONS labels, more than
\* MAX_OPTIONS labels, more than MAX_OPTIONS labels with repeated ones
OptionInputs ==
    {<<>>,
     << <<"a">> >>,
     << <<"a">>, <<" ", " ">> >>,
     << <<"a">>, <<" ", "A">> >>,
     << <<" ", "a", " ">>, <<"b">> >>,
     << <<"a">>, <<"B">>, <<"A", " ">>, <<"b">>, <<" ", "c">> >>,
     << <<"a", " ", "b">>, <<"a", "b">> >>,
     << <<"b">>, LongLabel(MaxLabelLen) >>,
     << <<"b">>, <<" ">> \o LongLabel(MaxLabelLen + 1) >>,
     Labels(MAX_OPTIONS),
     Labels(MAX_OPTIONS + 1),
     << <<"A", "B">>, <<"a", "a">>, <<"A", "a", " ">> >> \o Labels(MAX_OPTIONS + 5)}

TwoOptions == << <<"a">>, <<"b">> >>

\* visibility: Option<u8>
VisibilityInputs ==
    {None, Some(VISIBILITY_PUBLIC), Some(VISIBILITY_UNLISTED),
     Some(VISIBILITY_PRIVATE), Some(7)}

\* voting_system: Option<VotingSystem>
VotingSystemInputs == {None} \cup {Some(s) : s \in VotingSystem}

Request(title, options, visibility, voting_system) ==
    [title |-> title, options |-> options, visibility |-> visibility,
     voting_system |-> voting_system]

\* the arguments of create_vote: each list of options, each visibility and
\* each voting system with the other arguments valid, a title of spaces,
\* two invalid arguments at once
CreateVoteInputs ==
    {Request(<<"t">>, o, None, None) : o \in OptionInputs}
       \cup {Request(<<"t">>, TwoOptions, v, None) : v \in VisibilityInputs}
       \cup {Request(<<"t">>, TwoOptions, None, s) : s \in VotingSystemInputs}
       \cup {Request(<<" ">>, TwoOptions, None, None),
             Request(<<"t">>, <<>>, Some(VISIBILITY_PRIVATE), None),
             Request(<<"t">>, TwoOptions, Some(7), Some("MajorityJudgment"))}

\* each voter creates one vote at most
NextCreateVote ==
    \E sender \in Voters, in \in CreateVoteInputs :
        /\ \A v \in DOMAIN vote : vote[v].creator # sender
        /\ create_vote(sender, in.title, in.options, in.visibility,
                       in.voting_system)
        /\ call' = [op |-> "create_vote", sender |-> sender,
                    title |-> in.title, options |-> in.options,
                    visibility |-> in.visibility,
                    voting_system |-> in.voting_system]
        /\ before' = Tables
        /\ prior' = prior

\* create_vote, each call recorded
SpecCreateVote == InitEmpty /\ [][NextCreateVote]_vars



(***************************************************************************)
(* Votes created, used and deleted: create_vote, delete_vote and the       *)
(* ballot reducers on an empty database.  The votes have two options each. *)
(***************************************************************************)
\* the number of votes created in a behaviour
MaxCreated == 2

\* the votes that may have been created, and one that has not
LifecycleVoteInputs == 1..(MaxCreated + 1)

\* the first option of each vote that may have been created, and of one
\* that has not
LifecycleOptionInputs == {2 * v - 1 : v \in LifecycleVoteInputs}

NextLifecycle ==
    \E sender \in Voters :
        \/ \E system \in {"Approval", "MajorityJudgment"} :
              /\ sequence["vote"] <= MaxCreated
              /\ create_vote(sender, <<"t">>, TwoOptions, None, Some(system))
              /\ Record("create_vote", sender, 0, 0, 0, <<>>)
        \/ \E vote_id \in LifecycleVoteInputs :
              /\ delete_vote(sender, vote_id)
              /\ Record("delete_vote", sender, vote_id, 0, 0, <<>>)
        \/ \E option_id \in LifecycleOptionInputs :
              /\ cast_judgment(sender, option_id, Good)
              /\ Record("cast_judgment", sender, 0, option_id, Good, <<>>)
        \/ \E vote_id \in LifecycleVoteInputs :
              /\ withdraw_judgments(sender, vote_id)
              /\ Record("withdraw_judgments", sender, vote_id, 0, 0, <<>>)
        \/ \E vote_id \in LifecycleVoteInputs :
              /\ approve(sender, vote_id, 2 * vote_id - 1)
              /\ Record("approve", sender, vote_id, 2 * vote_id - 1, 0, <<>>)
        \/ \E vote_id \in LifecycleVoteInputs :
              /\ unapprove(sender, vote_id, 2 * vote_id - 1)
              /\ Record("unapprove", sender, vote_id, 2 * vote_id - 1, 0, <<>>)

\* create_vote, delete_vote and the ballot reducers, each call recorded
SpecLifecycle == InitEmpty /\ [][NextLifecycle]_vars



(***************************************************************************)
(* The ceiling of set_approvals: one Approval vote is created with fewer   *)
(* options than MAX_OPTIONS, with MAX_OPTIONS of them or with more, and    *)
(* the voters set their approvals with short and long lists.               *)
(***************************************************************************)
\* the options given to create_vote
CeilingOptionInputs == {Labels(2), Labels(MAX_OPTIONS), Labels(MAX_OPTIONS + 2)}

\* the lists given to set_approvals: none, every option of the vote, every
\* option twice, one option more often than the ceiling, two options, every
\* option and an id that is no option
CeilingLists ==
    LET all == get_vote_options(1) IN
    {<<>>, all, all \o all, [i \in 1..(ApprovalCeiling + 1) |-> 1],
     <<1, 2>>, all \o <<Len(all) + 1>>}

NextCeiling ==
    \E sender \in Voters :
        \/ \E options \in CeilingOptionInputs :
              /\ sequence["vote"] = 1
              /\ create_vote(sender, <<"t">>, options, None, Some("Approval"))
              /\ Record("create_vote", sender, 0, 0, 0, <<>>)
        \/ \E vote_id \in {1, 2}, option_ids \in CeilingLists :
              /\ set_approvals(sender, vote_id, option_ids)
              /\ Record("set_approvals", sender, vote_id, 0, 0, option_ids)

\* create_vote once and set_approvals, each call recorded
SpecCeiling == InitEmpty /\ [][NextCeiling]_vars



(***************************************************************************)
(* Two serializations of the same two calls.  After some ballot calls, a   *)
(* call of one voter and a call of another voter on the same vote run in   *)
(* one order; then the calls run in the other order on the tables that the *)
(* first order started from.  SpacetimeDB runs reducers one at a time, so  *)
(* these are the two outcomes of two concurrent calls.                     *)
(***************************************************************************)
\* the calls a voter makes: three on the Majority Judgment vote, three on
\* the Approval vote
OrderCalls(sender) ==
    {Call("cast_judgment", sender, MJVote, 1, Good, <<>>),
     Call("withdraw_judgments", sender, MJVote, 0, 0, <<>>),
     Call("submit_complete_judgment_ballot", sender, MJVote, 0, 0,
          Ballot(<<1, 2, 3>>, <<ToReject, Good, ToReject>>)),
     Call("approve", sender, ApprovalVote, 4, 0, <<>>),
     Call("unapprove", sender, ApprovalVote, 4, 0, <<>>),
     Call("set_approvals", sender, ApprovalVote, 0, 0, <<5>>)}

\* the reducer that a call names, run with the call's caller and arguments
RunCall(c) ==
    CASE c.op = "cast_judgment" ->
            cast_judgment(c.sender, c.option_id, c.mention)
      [] c.op = "withdraw_judgments" -> withdraw_judgments(c.sender, c.vote_id)
      [] c.op = "submit_complete_judgment_ballot" ->
            submit_complete_judgment_ballot(c.sender, c.vote_id, c.list)
      [] c.op = "approve" -> approve(c.sender, c.vote_id, c.option_id)
      [] c.op = "unapprove" -> unapprove(c.sender, c.vote_id, c.option_id)
      [] c.op = "set_approvals" -> set_approvals(c.sender, c.vote_id, c.list)

\* the tables as the step leaves them
TablesNext ==
    [vote |-> vote', vote_option |-> vote_option', approval |-> approval',
     judgment |-> judgment', mj_summary |-> mj_summary']

\* where the two serializations stand: the stage, the two calls, the tables
\* they started from and the tables the first order ended with
Order(stage, first, second, start, outcome) ==
    [op |-> stage, first |-> first, second |-> second, start |-> start,
     outcome |-> outcome]

\* the two voters whose calls run in both orders
OrderVoters == {1, 2}

\* the voters who approve option 4 one after the other next to them, as
\* many as the counter can count
OrderCrowd == 3..(CountMax + 1)

NextOrder ==
    \/ \E sender \in OrderVoters : \E c \in OrderCalls(sender) :
          /\ prior.op = "none"
          /\ RunCall(c)
          /\ UNCHANGED hist
    \/ \E sender \in OrderCrowd :
          /\ prior.op = "none"
          /\ sender = 3 + BagCount(approval, {r \in BagToSet(approval) :
                                                r.voter \in OrderCrowd})
          /\ approve(sender, ApprovalVote, 4)
          /\ UNCHANGED hist
    \/ \E a \in OrderVoters, b \in OrderVoters :
       \E first \in OrderCalls(a), second \in OrderCalls(b) :
          /\ prior.op = "none"
          /\ a < b
          /\ first.vote_id = second.vote_id
          /\ RunCall(first)
          /\ prior' = Order("first", first, second, Tables, Tables)
          /\ UNCHANGED <<call, before>>
    \/ /\ prior.op = "first"
       /\ RunCall(prior.second)
       /\ prior' = [prior EXCEPT !.op = "first, second",
                                 !.outcome = TablesNext]
       /\ UNCHANGED <<call, before>>
    \/ /\ prior.op = "first, second"
       /\ vote' = prior.start.vote
       /\ vote_option' = prior.start.vote_option
       /\ approval' = prior.start.approval
       /\ judgment' = prior.start.judgment
       /\ mj_summary' = prior.start.mj_summary
       /\ prior' = [prior EXCEPT !.op = "start"]
       /\ UNCHANGED <<sequence, result, tally, call, before>>
    \/ /\ prior.op = "start"
       /\ RunCall(prior.second)
       /\ prior' = [prior EXCEPT !.op = "second"]
       /\ UNCHANGED <<call, before>>
    \/ /\ prior.op = "second"
       /\ RunCall(prior.first)
       /\ prior' = [prior EXCEPT !.op = "second, first"]
       /\ UNCHANGED <<call, before>>

\* ballot calls, then two calls of two voters in both orders
SpecOrder == Init /\ [][NextOrder]_vars


(***************************************************************************)
(* Vocabulary of the properties.                                           *)
(***************************************************************************)
\* the options of a vote
OptionsOf(vote_id) == {o \in DOMAIN vote_option : vote_option[o].vote_id = vote_id}

\* stored rows per option, and per (voter, option)
ApprovalRowsOf(o) ==
    BagCount(approval, {r \in BagToSet(approval) : r.option_id = o})

ApprovalRowsOfVoter(o, v) ==
    BagCount(approval, {r \in BagToSet(approval) : r.option_id = o /\ r.voter = v})

JudgmentRowsOf(o) == BagCount(judgment, by_option(judgment, o))

JudgmentRowsOfVoter(o, v) == BagCount(judgment, by_option_and_voter(judgment, o, v))

\* n copies of grade g
Copies(g, n) == [k \in 1..n |-> g]

\* the ballots behind a count array, listed worst to best
SortedBallots(c) ==
    Copies(ToReject, c[ToReject]) \o Copies(Passable, c[Passable])
       \o Copies(Good, c[Good]) \o Copies(VeryGood, c[VeryGood])
       \o Copies(Excellent, c[Excellent])

\* a sorted list without one ballot of grade g
WithoutOne(ballots, g) ==
    LET k == CHOOSE j \in DOMAIN ballots : ballots[j] = g
    IN SubSeq(ballots, 1, k - 1) \o SubSeq(ballots, k + 1, Len(ballots))

\* the element at the 1-indexed position (n + 1) / 2 of a list of n ballots
LowerMedian(ballots) == ballots[(Len(ballots) + 1) \div 2]

\* number of ballots of grade g or worse
Cumulative(c, g) == SetSum(c, ToReject..g)

\* SpecTally: the aggregator's answer for count array i
TallyTotal(i) == counts_sum(counts_list[i])
TallyMajority(i) == majorities_seconds[i].majority
TallySecond(i) == majorities_seconds[i].second
\* the count arrays whose majority grade is the best of the list
TallyWinners ==
    {i \in DOMAIN counts_list :
        \A j \in DOMAIN counts_list : TallyMajority(j) <= TallyMajority(i)}

\* the spec's examples
ExampleEven == [ZeroCounts EXCEPT ![Good] = 2, ![VeryGood] = 1, ![Excellent] = 1]
ExampleOdd == [ZeroCounts EXCEPT ![Good] = 1, ![VeryGood] = 1, ![Excellent] = 1]

(***************************************************************************)
(* Properties.                                                             *)
(***************************************************************************)

C4_NoBallotsWorstGrade ==
    \A o \in DOMAIN mj_summary :
        mj_summary[o].total = 0 => mj_summary[o].majority = ToReject

\* C4 witness: after every voter withdrew, the options are stored with
\* total 0.
C4_Witness ==
    /\ result = "Ok"
    /\ judgment = EmptyBag
    /\ OptionsOf(MJVote) \subseteq DOMAIN mj_summary
    /\ \A o \in OptionsOf(MJVote) : mj_summary[o].total = 0

C6_RunnerUpOnlyAtTiedTop ==
    \A o \in DOMAIN mj_summary :
        mj_summary[o].second # None =>
            LET peers == OptionsOf(mj_summary[o].vote_id) IN
            /\ peers \subseteq DOMAIN mj_summary
            /\ \A p \in peers : mj_summary[p].majority <= mj_summary[o].majority
            /\ \E p \in peers \ {o} :
                  mj_summary[p].majority = mj_summary[o].majority

\* C6 witness: two options tied at the best grade carry a runner-up, and the
\* third option, with two ballots and a lower majority grade, carries none.
C6_Witness ==
    \E o1, o2, o3 \in DOMAIN mj_summary :
        /\ o1 # o2
        /\ mj_summary[o1].second # None /\ mj_summary[o2].second # None
        /\ mj_summary[o3].majority < mj_summary[o1].majority
        /\ mj_summary[o3].total = 2
        /\ mj_summary[o3].second = None

\* C7 (SpecTally): a runner-up grade computed for counts c, total t and
\* majority grade m is the lower median of the t - 1 ballots that remain when
\* one ballot of grade m is removed; it is a function of c alone.
C7_RunnerUpIsReducedMedian ==
    \A i \in DOMAIN counts_list :
        TallySecond(i) # None =>
            LET rest == WithoutOne(SortedBallots(counts_list[i]), TallyMajority(i))
            IN /\ Len(rest) = TallyTotal(i) - 1
               /\ TallySecond(i) = Some(LowerMedian(rest))

\* C7 witness: the spec's example, {Good:1, VeryGood:1, Excellent:1} has the
\* majority grade VeryGood and the runner-up Good.
C7_Witness ==
    \E i \in DOMAIN counts_list :
        /\ counts_list[i] = ExampleOdd
        /\ TallyMajority(i) = VeryGood
        /\ TallySecond(i) = Some(Good)

\* C8 (SpecTally): an option whose total is 0 or 1 has no runner-up grade,
\* also when it is tied with other options at the best majority grade.
C8_NoRunnerUpBelowTwoBallots ==
    \A i \in DOMAIN counts_list :
        TallyTotal(i) <= 1 => TallySecond(i) = None

\* C8 witness: several options, each with one ballot, all tied at the best
\* majority grade (the tally right after one voter's seeding).
C8_Witness ==
    /\ Len(counts_list) >= 2
    /\ TallyWinners = DOMAIN counts_list
    /\ \A i \in DOMAIN counts_list : TallyTotal(i) = 1

\* C9 (Spec): in every state reached by the six ballot reducers there is at
\* most one judgment row and at most one approval row per (voter, option).
C9_OneRowPerVoterOption ==
    \A v \in Voters, o \in DOMAIN vote_option :
        /\ JudgmentRowsOfVoter(o, v) <= 1
        /\ ApprovalRowsOfVoter(o, v) <= 1

\* C9 witness: a voter holds a row in both tables, and the judgment row was
\* changed after seeding.
C9_Witness ==
    \E v \in Voters :
        /\ \E o \in OptionsOf(ApprovalVote) : ApprovalRowsOfVoter(o, v) = 1
        /\ \E o \in OptionsOf(MJVote) :
              BagIn(JudgmentRow(o, v, Good), judgment)
        /\ \E o \in OptionsOf(MJVote) :
              BagIn(JudgmentRow(o, v, ToReject), judgment)

\* C10 (SpecJudgment): for every voter and every Majority Judgment vote the
\* voter holds no judgment row for any option of the vote, or exactly one
\* for each option.
C10_AllOrNothing ==
    \A v \in Voters, vote_id \in DOMAIN vote :
        vote[vote_id].voting_system = "MajorityJudgment" =>
            \/ \A o \in OptionsOf(vote_id) : JudgmentRowsOfVoter(o, v) = 0
            \/ \A o \in OptionsOf(vote_id) : JudgmentRowsOfVoter(o, v) = 1

\* C10 witness: one voter holds a full ballot with an explicit grade while
\* another voter, after a withdrawal, holds none.
C10_Witness ==
    \E v1, v2 \in Voters :
        /\ \A o \in OptionsOf(MJVote) : JudgmentRowsOfVoter(o, v1) = 1
        /\ \E o \in OptionsOf(MJVote) : BagIn(JudgmentRow(o, v1, Good), judgment)
        /\ \A o \in OptionsOf(MJVote) : JudgmentRowsOfVoter(o, v2) = 0
        /\ \A o \in OptionsOf(MJVote) :
              o \in DOMAIN mj_summary /\ mj_summary[o].total = 1

(***************************************************************************)
(* Vocabulary of the properties about single calls.                        *)
(***************************************************************************)
\* the last call was reducer op and returned Ok
Succeeded(op) == call.op = op /\ result = "Ok"

\* the rows of table jud that voter v holds for the options of a vote
RowsOfVoter(jud, vote_id, v) ==
    LET held == {r \in BagToSet(jud) :
                    r.voter = v /\ r.option_id \in OptionsOf(vote_id)}
    IN [r \in held |-> jud[r]]

\* the rows of table jud that are not rows of voter v for the vote
RowsOfOthers(jud, vote_id, v) ==
    LET others == {r \in BagToSet(jud) :
                      ~(r.voter = v /\ r.option_id \in OptionsOf(vote_id))}
    IN [r \in others |-> jud[r]]

\* the ballot with grade m on option o and the worst grade elsewhere
DefaultBallotWith(vote_id, v, o, m) ==
    SetToBag({JudgmentRow(p, v, IF p = o THEN m ELSE ToReject) :
                 p \in OptionsOf(vote_id)})

\* the vote of the option named in the last call
CallVote == vote_option[call.option_id].vote_id

\* C11 (SpecJudgmentCalls): after a successful cast_judgment(option, grade)
\* by a voter who held no judgment row for the vote, the voter holds exactly
\* one row per option of the vote: the requested grade on the target option
\* and the worst grade on every other option.
C11_FirstCastSeeds ==
    (/\ Succeeded("cast_judgment")
     /\ RowsOfVoter(before.judgment, CallVote, call.sender) = EmptyBag)
    => /\ RowsOfVoter(judgment, CallVote, call.sender) =
             DefaultBallotWith(CallVote, call.sender, call.option_id, call.mention)
       /\ RowsOfOthers(judgment, CallVote, call.sender) = before.judgment

\* C11 witness: a voter without rows casts Good on one option while another
\* voter already holds a ballot.
C11_Witness ==
    /\ Succeeded("cast_judgment")
    /\ call.mention = Good
    /\ RowsOfVoter(before.judgment, CallVote, call.sender) = EmptyBag
    /\ before.judgment # EmptyBag

\* the rows of table jud other than those of voter v for option o
RowsBesides(jud, o, v) ==
    LET others == {r \in BagToSet(jud) : ~(r.voter = v /\ r.option_id = o)}
    IN [r \in others |-> jud[r]]

\* the last call was a successful cast_judgment of a voter who held rows
SeededCast ==
    /\ Succeeded("cast_judgment")
    /\ RowsOfVoter(before.judgment, CallVote, call.sender) # EmptyBag

C12_RepeatedCast ==
    /\ SeededCast
    /\ call.mention = Good
    /\ BagIn(JudgmentRow(call.option_id, call.sender, Good), before.judgment)

\* rows of table jud for option o, and those of them held by voter v
RowsFor(jud, o) == BagCount(jud, by_option(jud, o))
RowsForBy(jud, o, v) == BagCount(jud, by_option_and_voter(jud, o, v))

\* the total that the summaries of table summ show for option o
TotalIn(summ, o) == IF o \in DOMAIN summ THEN summ[o].total ELSE 0

C13_EmptyWithdraw ==
    /\ Succeeded("withdraw_judgments")
    /\ RowsOfVoter(before.judgment, call.vote_id, call.sender) = EmptyBag
    /\ before.judgment # EmptyBag

\* the last call was a successful cast_judgment that came right after a
\* successful withdraw_judgments of the same voter from the same vote, and the
\* voter held rows before that withdrawal
CastAfterWithdrawal ==
    /\ Succeeded("cast_judgment")
    /\ prior.op = "withdraw_judgments"
    /\ prior.sender = call.sender
    /\ prior.vote_id = CallVote
    /\ RowsOfVoter(prior.judgment, CallVote, call.sender) # EmptyBag

\* C14 (SpecWithdrawCast): when a voter holding rows withdraws from a vote
\* and then casts one grade, the voter holds the full default ballot: the
\* requested grade on the option cast and the worst grade on every other
\* option, whatever grades the voter held before the withdrawal.
C14_WithdrawThenCastReseeds ==
    CastAfterWithdrawal =>
        /\ RowsOfVoter(before.judgment, CallVote, call.sender) = EmptyBag
        /\ RowsOfVoter(judgment, CallVote, call.sender) =
              DefaultBallotWith(CallVote, call.sender, call.option_id, call.mention)
        /\ \A o \in OptionsOf(CallVote) \ {call.option_id} :
              by_option_and_voter(judgment, o, call.sender) =
                 {JudgmentRow(o, call.sender, ToReject)}

\* C14 witness: the voter held Good on an option before the withdrawal and
\* then cast a grade on another option.
C14_Witness ==
    /\ CastAfterWithdrawal
    /\ \E o \in OptionsOf(CallVote) \ {call.option_id} :
          BagIn(JudgmentRow(o, call.sender, Good), prior.judgment)

\* the rows that a batch of entries asks for, for voter v
BallotRows(entries, v) ==
    SetToBag({JudgmentRow(entries[k].option_id, v, entries[k].mention) :
                 k \in DOMAIN entries})

\* the summary of option o agrees with the judgment rows of the table jud
SummaryMatches(o, jud) ==
    /\ o \in DOMAIN mj_summary
    /\ \A m \in Mention :
          mj_summary[o].counts[m] =
             BagCount(jud, {r \in by_option(jud, o) : r.mention = m})
    /\ mj_summary[o].total = RowsFor(jud, o)
    /\ mj_summary[o].total >= 1 =>
          mj_summary[o].majority = LowerMedian(SortedBallots(mj_summary[o].counts))

\* C15 (SpecJudgmentCalls): after a successful
\* submit_complete_judgment_ballot(vote, entries) the caller holds exactly
\* one judgment row per option of the vote, with the grade of the entry for
\* that option, whatever rows the caller held before; the rows of the other
\* voters are as before and the summaries agree with the resulting rows.
C15_SubmitReplacesBallot ==
    Succeeded("submit_complete_judgment_ballot") =>
        /\ RowsOfVoter(judgment, call.vote_id, call.sender) =
              BallotRows(call.list, call.sender)
        /\ \A o \in OptionsOf(call.vote_id) :
              /\ JudgmentRowsOfVoter(o, call.sender) = 1
              /\ \E k \in DOMAIN call.list :
                    /\ call.list[k].option_id = o
                    /\ BagIn(JudgmentRow(o, call.sender, call.list[k].mention),
                             judgment)
              /\ SummaryMatches(o, judgment)
        /\ RowsOfOthers(judgment, call.vote_id, call.sender) =
              RowsOfOthers(before.judgment, call.vote_id, call.sender)

\* C15 witness: a voter who held Good on an option submits a batch, listed
\* out of option order, that grades this option worst and another one Good.
C15_Witness ==
    /\ Succeeded("submit_complete_judgment_ballot")
    /\ call.list[1].option_id # 1
    /\ \E o1, o2 \in OptionsOf(call.vote_id) :
          /\ BagIn(JudgmentRow(o1, call.sender, Good), before.judgment)
          /\ BagIn(JudgmentRow(o1, call.sender, ToReject), judgment)
          /\ BagIn(JudgmentRow(o2, call.sender, ToReject), before.judgment)
          /\ BagIn(JudgmentRow(o2, call.sender, Good), judgment)

\* a state in which a voter without rows submitted a complete batch
C15_FirstSubmit ==
    /\ Succeeded("submit_complete_judgment_ballot")
    /\ RowsOfVoter(before.judgment, call.vote_id, call.sender) = EmptyBag
    /\ before.judgment # EmptyBag

\* a batch that is not one entry per option of the vote
WrongCount(vote_id, entries) == Len(entries) # Cardinality(OptionsOf(vote_id))

ForeignOption(vote_id, entries) ==
    \E k \in DOMAIN entries : entries[k].option_id \notin OptionsOf(vote_id)

RepeatedOption(entries) ==
    \E j, k \in DOMAIN entries :
        j # k /\ entries[j].option_id = entries[k].option_id

\* the last call was a submit_complete_judgment_ballot with such a batch
InvalidSubmit ==
    /\ call.op = "submit_complete_judgment_ballot"
    /\ \/ WrongCount(call.vote_id, call.list)
       \/ ForeignOption(call.vote_id, call.list)
       \/ RepeatedOption(call.list)

\* C16 (SpecJudgmentCalls): submit_complete_judgment_ballot returns an error
\* and leaves every judgment row and every summary as it was whenever the
\* number of entries differs from the number of options of the vote, an
\* entry names an option outside the vote, or two entries name the same
\* option.
C16_InvalidSubmitRejected ==
    InvalidSubmit =>
        /\ result # "Ok"
        /\ (vote_exists(call.vote_id)
              /\ vote[call.vote_id].voting_system = "MajorityJudgment")
              => result \in {"IncompleteBallot", "OptionNotInVote",
                             "DuplicateJudgment"}
        /\ judgment = before.judgment
        /\ mj_summary = before.mj_summary

\* C16 witness: a voter holding a ballot submits a batch that is too short
\* and is turned away.
C16_Witness ==
    /\ InvalidSubmit
    /\ result = "IncompleteBallot"
    /\ Len(call.list) = 2
    /\ \E o \in OptionsOf(call.vote_id) :
          BagIn(JudgmentRow(o, call.sender, Good), before.judgment)

\* states in which the other two kinds of invalid batch were turned away
C16_RepeatedRejected ==
    InvalidSubmit /\ result = "DuplicateJudgment" /\ before.judgment # EmptyBag

C16_ForeignRejected ==
    InvalidSubmit /\ result = "OptionNotInVote" /\ before.judgment # EmptyBag

\* the approval row that the last call names
CallApproval == ApprovalRow(call.vote_id, call.option_id, call.sender)

\* every table is as the last call found it
TablesUnchanged == Tables = before

\* the counters of the options other than those in S are as before
CountersUnchangedBesides(S) ==
    \A o \in DOMAIN vote_option \ S : vote_option[o] = before.vote_option[o]

\* C17 (SpecApprovalCalls): approve by a voter who has not approved the
\* option adds the voter's row and raises the option's counter by one;
\* approve by a voter who has already approved it succeeds and leaves the
\* whole state unchanged.
C17_ApproveIdempotent ==
    /\ Succeeded("approve") =>
          IF BagIn(CallApproval, before.approval)
          THEN TablesUnchanged
          ELSE /\ approval = before.approval (+) SetToBag({CallApproval})
               /\ vote_option[call.option_id].approvals_count =
                     before.vote_option[call.option_id].approvals_count + 1
               /\ CountersUnchangedBesides({call.option_id})
    /\ (call.op = "approve" /\ BagIn(CallApproval, before.approval))
          => result = "Ok"

\* C17 witness: a voter approves again an option that two voters, this one
\* included, have approved.
C17_Witness ==
    /\ Succeeded("approve")
    /\ BagIn(CallApproval, before.approval)
    /\ before.vote_option[call.option_id].approvals_count = 2

\* a state in which an option was approved for the first time
C17_FirstApprove ==
    /\ Succeeded("approve")
    /\ ~BagIn(CallApproval, before.approval)
    /\ before.approval # EmptyBag

\* the last call names an option of the vote it names, an Approval vote
ValidApprovalCall ==
    /\ call.option_id \in OptionsOf(call.vote_id)
    /\ call.vote_id \in DOMAIN vote
    /\ vote[call.vote_id].voting_system = "Approval"

C18_NothingToRemove ==
    /\ Succeeded("unapprove")
    /\ ~BagIn(CallApproval, before.approval)
    /\ before.vote_option[call.option_id].approvals_count = 1

\* the options of a vote that voter v approves in the table appr
ApprovedBy(appr, vote_id, v) ==
    {r.option_id : r \in {x \in BagToSet(appr) :
                             x.vote_id = vote_id /\ x.voter = v}}

\* the rows of the table appr that are not rows of voter v for the vote
ApprovalsOfOthers(appr, vote_id, v) ==
    LET others == {r \in BagToSet(appr) : ~(r.vote_id = vote_id /\ r.voter = v)}
    IN [r \in others |-> appr[r]]

\* the ids of the last call, as a set, and the caller's approvals before it
Desired == {call.list[k] : k \in DOMAIN call.list}
Current == ApprovedBy(before.approval, call.vote_id, call.sender)

C19_RepeatedId ==
    /\ Succeeded("set_approvals")
    /\ Len(call.list) > Cardinality(Desired)
    /\ Current = {5}

\* C20 (Spec): whenever one of cast_judgment, withdraw_judgments,
\* submit_complete_judgment_ballot, approve, unapprove and set_approvals
\* returns an error, the judgment rows, the approval rows, the approval
\* counters and the summaries are exactly as before the call.
C20_ErrorsChangeNothing ==
    [][result' # "Ok" =>
          UNCHANGED <<vote_option, approval, judgment, mj_summary>>]_vars

\* C20 witness: a call returned an error while both votes held ballots.
C20_Witness ==
    /\ result \notin {"Ok", "Init"}
    /\ judgment # EmptyBag
    /\ approval # EmptyBag

(***************************************************************************)
(* Vocabulary of the properties about calls on several votes.              *)
(***************************************************************************)
JudgmentOps ==
    {"cast_judgment", "withdraw_judgments", "submit_complete_judgment_ballot"}

ApprovalOps == {"approve", "unapprove", "set_approvals"}

\* the vote that the last call targets: the vote of the option for
\* cast_judgment, the vote_id argument for the other reducers; 0 when the
\* option of cast_judgment is unknown
TargetVote ==
    IF call.op = "cast_judgment"
    THEN IF call.option_id \in DOMAIN vote_option
         THEN vote_option[call.option_id].vote_id ELSE 0
    ELSE call.vote_id

\* the last call targets an existing vote of the given voting system
TargetsSystem(system) ==
    TargetVote \in DOMAIN vote /\ vote[TargetVote].voting_system = system

\* C21 (SpecCrossVote): cast_judgment, withdraw_judgments and
\* submit_complete_judgment_ballot on a vote configured for Approval return
\* the error NotMajorityJudgment; approve, unapprove and set_approvals on a
\* vote configured for Majority Judgment return an error, which is
\* NotApproval when the options named belong to the vote; none returns Ok.
C21_MethodMismatchRejected ==
    /\ (call.op \in JudgmentOps /\ TargetsSystem("Approval"))
          => result = "NotMajorityJudgment"
    /\ (call.op \in ApprovalOps /\ TargetsSystem("MajorityJudgment"))
          => /\ result \in {"NotApproval", "OptionNotInVote", "OptionNotFound"}
             /\ ({call.option_id} \cup Range(call.list)) \ {0}
                   \subseteq OptionsOf(TargetVote) => result = "NotApproval"

\* a voter who holds judgments and approvals called withdraw_judgments on
\* the Approval vote and was refused
C21_Witness ==
    /\ call.op = "withdraw_judgments"
    /\ call.vote_id = ApprovalVote
    /\ result = "NotMajorityJudgment"
    /\ ApprovalRowsOfVoter(4, call.sender) = 1
    /\ JudgmentRowsOfVoter(1, call.sender) = 1

\* the rows of a vote in the tables t: the judgment rows and the summary
\* rows of its options, its approval rows and the approval rows of its
\* options, the counters of its options
RowsOfVote(t, vote_id) ==
    LET options == {o \in DOMAIN t.vote_option :
                       t.vote_option[o].vote_id = vote_id}
        judged == {r \in BagToSet(t.judgment) : r.option_id \in options}
        approved == {r \in BagToSet(t.approval) :
                        r.vote_id = vote_id \/ r.option_id \in options}
        summarised == {o \in DOMAIN t.mj_summary :
                          o \in options \/ t.mj_summary[o].vote_id = vote_id}
    IN [judgment |-> [r \in judged |-> t.judgment[r]],
        approval |-> [r \in approved |-> t.approval[r]],
        mj_summary |-> [o \in summarised |-> t.mj_summary[o]],
        vote_option |-> [o \in options |-> t.vote_option[o]]]

\* C22 (SpecCrossVote): a call of any of the six ballot reducers on vote A,
\* whether it returns Ok or an error, leaves the judgment rows, approval
\* rows, approval counters and summary rows of every other vote B as it
\* found them.
C22_OtherVotesUnchanged ==
    call.op \in JudgmentOps \cup ApprovalOps
       => \A B \in DOMAIN vote \ {TargetVote} :
             RowsOfVote(Tables, B) = RowsOfVote(before, B)

\* the creator, who holds a ballot in vote 5 and an approval in vote 6,
\* withdrew the ballot held in vote 1 while another voter holds one too
C22_Witness ==
    /\ Succeeded("withdraw_judgments")
    /\ call.vote_id = MJVote
    /\ call.sender = 1
    /\ RowsOfVoter(before.judgment, MJVote, 1) # EmptyBag
    /\ RowsOfVoter(judgment, MJVoteB, 1) # EmptyBag
    /\ RowsOfVoter(judgment, MJVote, 2) # EmptyBag
    /\ ApprovalRowsOfVoter(13, 1) = 1

\* the options that vote_id had in the tables t
OptionsIn(t, vote_id) ==
    {o \in DOMAIN t.vote_option : t.vote_option[o].vote_id = vote_id}

\* no row of any table refers to vote_id or to one of the options
NoRowRefersTo(vote_id, options) ==
    /\ vote_id \notin DOMAIN vote
    /\ \A o \in DOMAIN vote_option :
          o \notin options /\ vote_option[o].vote_id # vote_id
    /\ \A r \in BagToSet(approval) :
          r.vote_id # vote_id /\ r.option_id \notin options
    /\ \A r \in BagToSet(judgment) : r.option_id \notin options
    /\ \A o \in DOMAIN mj_summary :
          o \notin options /\ mj_summary[o].vote_id # vote_id

\* C23 (SpecDeleteVote): after a successful delete_vote(V) no vote row,
\* option, approval row, judgment row or summary row refers to V or to one
\* of the options V had, and the vote row, options, approval rows, judgment
\* rows and summary rows of every other vote are as the call found them.
C23_DeleteVoteRemovesAll ==
    Succeeded("delete_vote")
       => /\ NoRowRefersTo(call.vote_id, OptionsIn(before, call.vote_id))
          /\ DOMAIN vote = DOMAIN before.vote \ {call.vote_id}
          /\ \A B \in DOMAIN vote :
                /\ vote[B] = before.vote[B]
                /\ OptionsIn(Tables, B) = OptionsIn(before, B)
                /\ RowsOfVote(Tables, B) = RowsOfVote(before, B)

\* vote 1 was deleted while it held judgment rows and summaries, and the
\* votes 5 and 6 hold rows too
C23_Witness ==
    /\ Succeeded("delete_vote")
    /\ call.vote_id = MJVote
    /\ \E r \in BagToSet(before.judgment) :
          r.voter = 2 /\ r.option_id \in OptionsIn(before, MJVote)
    /\ 1 \in DOMAIN before.mj_summary
    /\ RowsOfVoter(judgment, MJVoteB, 1) # EmptyBag
    /\ ApprovalRowsOfVoter(13, 1) = 1

(***************************************************************************)
(* Vocabulary of the properties about stored summaries.                    *)
(***************************************************************************)
\* the ballots that the table jud holds for option o, listed worst to best
BallotsOf(jud, o) ==
    SortedBallots([m \in Mention |->
                      BagCount(jud, {r \in by_option(jud, o) : r.mention = m})])

\* the majority grade of option o by the definition: the lower median of
\* its ballots, the worst grade when it has none
MedianOf(jud, o) ==
    IF BallotsOf(jud, o) = <<>> THEN ToReject ELSE LowerMedian(BallotsOf(jud, o))

\* the options of a vote whose majority grade is the best of the vote
WinnersOf(jud, vote_id) ==
    {o \in OptionsOf(vote_id) :
        \A q \in OptionsOf(vote_id) : MedianOf(jud, q) <= MedianOf(jud, o)}

\* the runner-up of option o by the vote-wide tie rule: the lower median of
\* its ballots without one ballot of its majority grade, for an option that
\* has two ballots or more and shares the best majority grade of its vote
RunnerUpOf(jud, o) ==
    LET vote_id == vote_option[o].vote_id
    IN IF /\ o \in WinnersOf(jud, vote_id)
          /\ Cardinality(WinnersOf(jud, vote_id)) > 1
          /\ Len(BallotsOf(jud, o)) >= 2
       THEN Some(LowerMedian(WithoutOne(BallotsOf(jud, o), MedianOf(jud, o))))
       ELSE None

Saturated(n) == IF n > CountMax THEN CountMax ELSE n

\* the judgment rows of option o that carry grade m
RowsGraded(o, m) ==
    BagCount(judgment, {r \in by_option(judgment, o) : r.mention = m})

\* C25 (SpecCounting), as the specification states it: the counters
\* saturate, that is each per-grade count of a summary is the number of the
\* option's judgment rows of that grade, its total the number of the
\* option's judgment rows and each approval counter the number of the
\* option's approval rows, or u32::MAX when there are more rows than that.
C25_CountsSaturate ==
    /\ \A o \in DOMAIN mj_summary :
          /\ mj_summary[o].total = Saturated(JudgmentRowsOf(o))
          /\ \A m \in Mention :
                mj_summary[o].counts[m] = Saturated(RowsGraded(o, m))
    /\ \A o \in DOMAIN vote_option :
          vote_option[o].approvals_count = Saturated(ApprovalRowsOf(o))

(***************************************************************************)
(* Vocabulary of the properties about the fallback of the median scan.     *)
(***************************************************************************)
\* compute_majority_from_counts(counts, total) leaves its loop without
\* returning and answers with the fallback
FallbackTaken(counts, total) ==
    /\ total # 0
    /\ loop_exit(counts, median_target(total), ToReject, 0) > Excellent

\* the reduced distribution of compute_second_from_counts
Reduced(counts, majority) ==
    [counts EXCEPT ![majority] = counts[majority] - 1]

\* C26 (SpecTally): the median scan returns from inside its loop, both when
\* the aggregator computes the majority grade of a count array from its
\* counts and total, and when it computes a runner-up on the reduced
\* distribution (one ballot of the majority grade removed, total - 1).
C26_FallbackNeverTaken ==
    \A i \in DOMAIN counts_list :
        /\ ~FallbackTaken(counts_list[i], TallyTotal(i))
        /\ TallySecond(i) # None
              => ~FallbackTaken(Reduced(counts_list[i], TallyMajority(i)),
                                TallyTotal(i) - 1)

\* two arrays with two ballots of the best grade each: both scans run to
\* the last grade of the loop, for the majority grade and for the runner-up
C26_Witness ==
    \E i, j \in DOMAIN counts_list :
        /\ i # j
        /\ counts_list[i][Excellent] = 2
        /\ counts_list[j][Excellent] = 2
        /\ TallyMajority(i) = Excellent
        /\ TallySecond(i) = Some(Excellent)

(***************************************************************************)
(* Vocabulary of the properties about create_vote.                         *)
(***************************************************************************)
\* the positions of s that hold a character other than the space
Inked(s) == {i \in DOMAIN s : s[i] # " "}

\* s from its first to its last character other than the space
Trimmed(s) ==
    IF Inked(s) = {} THEN <<>>
    ELSE SubSeq(s, CHOOSE i \in Inked(s) : \A j \in Inked(s) : i <= j,
                   CHOOSE i \in Inked(s) : \A j \in Inked(s) : j <= i)

\* the two casings of a letter
SameLetter(c, d) ==
    c = d \/ {c, d} \in {{"a", "A"}, {"b", "B"}, {"c", "C"}}

\* two labels that differ in casing at most
SameLabel(s, t) ==
    Len(s) = Len(t) /\ \A i \in DOMAIN s : SameLetter(s[i], t[i])

\* the list of options is refused: it is empty, a label is empty after
\* trimming or too long, or no two labels are distinct
Refused(options) ==
    \/ options = <<>>
    \/ \E i \in DOMAIN options :
          Trimmed(options[i]) = <<>> \/ Len(Trimmed(options[i])) > MaxLabelLen
    \/ \A i, j \in DOMAIN options :
          SameLabel(Trimmed(options[i]), Trimmed(options[j]))

\* the positions of the labels that no earlier label equals up to casing
FirstOccurrences(options) ==
    {i \in DOMAIN options :
        \A j \in 1..(i - 1) :
            ~SameLabel(Trimmed(options[j]), Trimmed(options[i]))}

\* the trimmed labels at these positions, in input order, MAX_OPTIONS at most
Kept(options) ==
    LET at == SetToSortedSeq(FirstOccurrences(options))
        n == IF Len(at) > MAX_OPTIONS THEN MAX_OPTIONS ELSE Len(at)
    IN [k \in 1..n |-> Trimmed(options[at[k]])]

\* the labels of the options of a vote, by order_index
LabelsOf(vote_id) ==
    [k \in 1..Cardinality(OptionsOf(vote_id)) |->
        vote_option[CHOOSE o \in OptionsOf(vote_id) :
                       vote_option[o].order_index = k - 1].label]

\* the vote that the last call created
Created == CHOOSE v \in DOMAIN vote : v \notin DOMAIN before.vote

\* C27 (SpecCreateVote): validate_and_clean_options fails when the list is
\* empty, when a label is empty after trimming or too long, or when fewer
\* than 2 labels are distinct up to casing; otherwise it returns the
\* trimmed labels without the later ones of those equal up to casing, in
\* input order, cut to the first MAX_OPTIONS.  create_vote stores exactly
\* these labels, so every vote has between 2 and MAX_OPTIONS options.
C27_OptionsCleaned ==
    /\ call.op = "create_vote" =>
          LET cleaned == validate_and_clean_options(call.options)
          IN /\ cleaned.ok = ~Refused(call.options)
             /\ cleaned.ok => cleaned.value = Kept(call.options)
             /\ Refused(call.options) => result # "Ok" /\ Tables = before
             /\ result = "Ok" => LabelsOf(Created) = Kept(call.options)
    /\ \A v \in DOMAIN vote :
          /\ Cardinality(OptionsOf(v)) >= 2
          /\ Cardinality(OptionsOf(v)) <= MAX_OPTIONS

\* a vote was created from more than MAX_OPTIONS distinct labels, some of
\* them repeated in another casing or with spaces around: it has
\* MAX_OPTIONS options
C27_Witness ==
    /\ call.op = "create_vote"
    /\ result = "Ok"
    /\ Cardinality(FirstOccurrences(call.options)) > MAX_OPTIONS
    /\ Cardinality(FirstOccurrences(call.options)) < Len(call.options)
    /\ \E i \in DOMAIN call.options : Trimmed(call.options[i]) # call.options[i]
    /\ Cardinality(OptionsOf(Created)) = MAX_OPTIONS

\* the keys of the summary rows that carry vote_id
SummariesOf(summ, vote_id) == {o \in DOMAIN summ : summ[o].vote_id = vote_id}

\* C28 (SpecCrossVote): after a successful cast_judgment, withdraw_judgments
\* or submit_complete_judgment_ballot on vote V, the summary rows that carry
\* vote identifier V are keyed by the options of V, one row for every
\* option; a recompute that finds the rows writes them again and adds none.
C28_OneSummaryPerOption ==
    (call.op \in JudgmentOps /\ result = "Ok")
       => /\ SummariesOf(mj_summary, TargetVote) = OptionsOf(TargetVote)
          /\ \A o \in OptionsOf(TargetVote) : mj_summary[o].vote_id = TargetVote
          /\ OptionsOf(TargetVote) \subseteq DOMAIN before.mj_summary
                => DOMAIN mj_summary = DOMAIN before.mj_summary

\* a cast on vote 1 found the summaries of its three options and of the
\* two options of vote 5, and wrote those of vote 1 again with new counts
C28_Witness ==
    /\ Succeeded("cast_judgment")
    /\ TargetVote = MJVote
    /\ DOMAIN before.mj_summary = {1, 2, 3, 11, 12}
    /\ DOMAIN mj_summary = {1, 2, 3, 11, 12}
    /\ mj_summary[1] # before.mj_summary[1]

\* the failures of a batch, in the order in which the specification lists
\* them, each with the error that reports it
SubmitFailures ==
    << <<call.vote_id \notin DOMAIN vote, "VoteNotFound">>,
       <<call.vote_id \in DOMAIN vote
            /\ vote[call.vote_id].voting_system # "MajorityJudgment",
         "NotMajorityJudgment">>,
       <<WrongCount(call.vote_id, call.list), "IncompleteBallot">>,
       <<ForeignOption(call.vote_id, call.list), "OptionNotInVote">>,
       <<RepeatedOption(call.list), "DuplicateJudgment">> >>

\* C29 (SpecJudgmentCalls): submit_complete_judgment_ballot reports the
\* first failure of the batch in the order unknown vote, wrong voting
\* method, entry count different from the option count, option of another
\* vote, repeated option; it returns Ok when the batch has none of them.
C29_FirstFailureReported ==
    call.op = "submit_complete_judgment_ballot"
       => /\ \A k \in DOMAIN SubmitFailures :
                (/\ SubmitFailures[k][1]
                 /\ \A j \in 1..(k - 1) : ~SubmitFailures[j][1])
                   => result = SubmitFailures[k][2]
          /\ (\A k \in DOMAIN SubmitFailures : ~SubmitFailures[k][1])
                => result = "Ok"

\* a batch with a wrong entry count that also names an option of another
\* vote is refused for the entry count
C29_Witness ==
    /\ call.op = "submit_complete_judgment_ballot"
    /\ call.vote_id = MJVote
    /\ WrongCount(call.vote_id, call.list)
    /\ ForeignOption(call.vote_id, call.list)
    /\ result = "IncompleteBallot"

\* the visibility levels and the voting systems that the server enables
EnabledVisibilities ==
    {v \in {VISIBILITY_PUBLIC, VISIBILITY_UNLISTED, VISIBILITY_PRIVATE} :
        \/ v = VISIBILITY_PUBLIC /\ ENABLE_PUBLIC_VOTES
        \/ v = VISIBILITY_UNLISTED /\ ENABLE_UNLISTED_VOTES
        \/ v = VISIBILITY_PRIVATE /\ ENABLE_PRIVATE_VOTES}

EnabledVotingSystems ==
    {s \in VotingSystem :
        \/ s = "Approval" /\ ENABLE_APPROVAL_VOTING
        \/ s = "MajorityJudgment" /\ ENABLE_MAJORITY_JUDGMENT}

\* what the last create_vote asked for, the defaults filled in
RequestedVisibility ==
    IF call.visibility = None THEN VISIBILITY_PUBLIC ELSE call.visibility[1]

RequestedVotingSystem ==
    IF call.voting_system = None THEN "Approval" ELSE call.voting_system[1]

\* C30 (SpecCreateVote), as the specification states it: a create_vote
\* whose visibility is not an enabled level, the values outside public,
\* unlisted and private included, or whose voting system is not enabled,
\* returns an error and stores no vote and no option; every stored vote has
\* an enabled visibility level and an enabled voting system.
C30_OnlyEnabledStored ==
    /\ (/\ call.op = "create_vote"
        /\ \/ RequestedVisibility \notin EnabledVisibilities
           \/ RequestedVotingSystem \notin EnabledVotingSystems)
          => result # "Ok" /\ Tables = before
    /\ \A v \in DOMAIN vote :
          /\ vote[v].visibility \in EnabledVisibilities
          /\ vote[v].voting_system \in EnabledVotingSystems

\* C31 (SpecDeleteVote): delete_vote for an unknown vote returns the error
\* VoteNotFound, delete_vote by a caller who is not the creator of the vote
\* returns the error NotCreator, and both leave the vote, its options,
\* judgment rows, approval rows and summaries, and every other row, as the
\* call found them.
C31_DeleteVoteRefused ==
    call.op = "delete_vote"
       => /\ call.vote_id \notin DOMAIN before.vote
                => result = "VoteNotFound" /\ Tables = before
          /\ (/\ call.vote_id \in DOMAIN before.vote
              /\ before.vote[call.vote_id].creator # call.sender)
                => result = "NotCreator" /\ Tables = before

\* voter 2, who did not create vote 1, asked to delete it while it held
\* judgment rows of both voters and summaries, and was refused
C31_Witness ==
    /\ call.op = "delete_vote"
    /\ call.vote_id = MJVote
    /\ call.sender = 2
    /\ result = "NotCreator"
    /\ RowsOfVoter(judgment, MJVote, 1) # EmptyBag
    /\ RowsOfVoter(judgment, MJVote, 2) # EmptyBag
    /\ 1 \in DOMAIN mj_summary

\* the voters who hold at least one judgment row for an option of the vote
SeededVoters(t, vote_id) ==
    {r.voter : r \in {q \in BagToSet(t.judgment) :
                         q.option_id \in OptionsIn(t, vote_id)}}

\* the Majority Judgment votes of which some option has a summary row
SummarisedVotes ==
    {v \in DOMAIN vote : /\ vote[v].voting_system = "MajorityJudgment"
                         /\ OptionsOf(v) \cap DOMAIN mj_summary # {}}

\* every option of the vote has a summary row whose total is n
EveryTotalIs(vote_id, n) ==
    \A o \in OptionsOf(vote_id) :
        o \in DOMAIN mj_summary /\ mj_summary[o].total = n

\* every option's total differs by d from its total before the last call
EveryTotalMovedBy(vote_id, d) ==
    \A o \in OptionsOf(vote_id) :
        TotalIn(mj_summary, o) = TotalIn(before.mj_summary, o) + d

\* the last call was a successful first cast_judgment of its sender
FirstCast ==
    /\ Succeeded("cast_judgment")
    /\ call.sender \notin SeededVoters(before, CallVote)

\* the last call was a successful withdraw_judgments of a seeded voter
SeededWithdrawal ==
    /\ Succeeded("withdraw_judgments")
    /\ call.sender \in SeededVoters(before, call.vote_id)

\* C32 (SpecCounting), as the specification states it: all options of a
\* Majority Judgment vote that has summary rows have the same total, the
\* number of voters seeded for the vote; a first cast_judgment raises every
\* option's total by one and a withdraw_judgments lowers it by one.
C32_TotalsEqualVoters ==
    /\ \A v \in SummarisedVotes :
          EveryTotalIs(v, Cardinality(SeededVoters(Tables, v)))
    /\ FirstCast => EveryTotalMovedBy(CallVote, 1)
    /\ SeededWithdrawal => EveryTotalMovedBy(call.vote_id, -1)

\* C32 (SpecCounting), amended: all options of a Majority Judgment vote
\* that has summary rows have the same total, the number of voters seeded
\* for the vote or u32::MAX when more voters than that are seeded; while at
\* most u32::MAX voters are seeded, a first cast_judgment raises every
\* option's total by one and a withdraw_judgments lowers it by one.
C32_TotalsCountVotersUpToMax ==
    /\ \A v \in SummarisedVotes :
          EveryTotalIs(v, Saturated(Cardinality(SeededVoters(Tables, v))))
    /\ (/\ FirstCast
        /\ Cardinality(SeededVoters(Tables, CallVote)) <= CountMax)
          => EveryTotalMovedBy(CallVote, 1)
    /\ (/\ SeededWithdrawal
        /\ Cardinality(SeededVoters(before, call.vote_id)) <= CountMax)
          => EveryTotalMovedBy(call.vote_id, -1)

\* the first cast of a second voter has brought every total of the vote to 2
C32_Witness ==
    /\ FirstCast
    /\ EveryTotalIs(MJVote, 2)
    /\ Cardinality(SeededVoters(Tables, MJVote)) = 2

\* the runner-up that compute_second_from_counts gives the i-th count array
\* with its own majority grade, whether or not the option is a tied winner
RunnerUp(i) ==
    compute_second_from_counts(counts_list[i], TallyTotal(i),
        compute_majority_from_counts(counts_list[i], TallyTotal(i)))

C34_MajorityBucketNotEmpty ==
    \A o \in DOMAIN mj_summary :
        LET counts == mj_summary[o].counts
            total == mj_summary[o].total
            majority == compute_majority_from_counts(counts, total)
        IN (total >= 1 /\ SetSum(counts, Mention) = total) =>
              /\ counts[majority] >= 1
              /\ mj_summary[o].majority = majority
              /\ total >= 2 =>
                    compute_second_from_counts(counts, total, majority) # None

\* C35 (SpecCrossVote): a vote configured for Approval has no judgment rows
\* and no summary rows; a vote configured for Majority Judgment has no
\* approval rows, and the approval counters of all its options are 0.
C35_TablesFollowMethod ==
    \A v \in DOMAIN vote :
        /\ vote[v].voting_system = "Approval" =>
              \A o \in OptionsOf(v) :
                  /\ by_option(judgment, o) = {}
                  /\ o \notin DOMAIN mj_summary
        /\ vote[v].voting_system = "MajorityJudgment" =>
              /\ \A r \in BagToSet(approval) :
                    r.vote_id # v /\ r.option_id \notin OptionsOf(v)
              /\ \A o \in OptionsOf(v) : vote_option[o].approvals_count = 0

\* a Majority Judgment reducer was refused on an Approval vote that holds
\* approvals, next to a Majority Judgment vote that holds judgments
C35_Witness ==
    /\ call.op \in JudgmentOps
    /\ TargetVote = ApprovalVote
    /\ result = "NotMajorityJudgment"
    /\ vote_option[4].approvals_count > 0
    /\ by_option(judgment, 1) # {}
    /\ 1 \in DOMAIN mj_summary

\* the last call was a cast_judgment that took the insert branch of its
\* step 4: the caller held rows for the vote, none of them for the target
FallbackInsert ==
    /\ Succeeded("cast_judgment")
    /\ call.option_id \in DOMAIN before.vote_option
    /\ \E r \in BagToSet(before.judgment) :
          /\ r.voter = call.sender
          /\ r.option_id \in
                OptionsIn(before, before.vote_option[call.option_id].vote_id)
    /\ by_option_and_voter(before.judgment, call.option_id, call.sender) = {}

\* C36 (SpecLifecycle): every option refers to an existing vote; every
\* judgment row, approval row and summary row refers to an existing option
\* of an existing vote; cast_judgment never returns "Parent vote not found"
\* and never takes its fallback insert branch.
C36_ReferencesResolve ==
    /\ \A o \in DOMAIN vote_option : vote_option[o].vote_id \in DOMAIN vote
    /\ \A r \in BagToSet(judgment) :
          /\ r.option_id \in DOMAIN vote_option
          /\ vote_option[r.option_id].vote_id \in DOMAIN vote
    /\ \A r \in BagToSet(approval) :
          /\ r.vote_id \in DOMAIN vote
          /\ r.option_id \in DOMAIN vote_option
          /\ vote_option[r.option_id].vote_id = r.vote_id
    /\ \A o \in DOMAIN mj_summary :
          /\ o \in DOMAIN vote_option
          /\ mj_summary[o].vote_id = vote_option[o].vote_id
          /\ mj_summary[o].vote_id \in DOMAIN vote
    /\ result # "ParentVoteNotFound"
    /\ ~FallbackInsert

\* a vote that held judgment rows and summaries has been deleted while
\* another vote, created after it, holds an approval
C36_Witness ==
    /\ Succeeded("delete_vote")
    /\ call.vote_id = 1
    /\ \E r \in BagToSet(before.judgment) :
          r.option_id \in OptionsIn(before, 1)
    /\ 1 \in DOMAIN before.mj_summary
    /\ 1 \notin DOMAIN vote
    /\ \E r \in BagToSet(approval) : r.vote_id = 2

\* the last call was a set_approvals on an existing Approval vote with a
\* list of which every id is an option of the vote
ValidSetApprovals ==
    /\ call.op = "set_approvals"
    /\ call.vote_id \in DOMAIN before.vote
    /\ before.vote[call.vote_id].voting_system = "Approval"
    /\ Range(call.list) \subseteq OptionsIn(before, call.vote_id)

\* C37 (SpecCeiling): every vote has at most MAX_OPTIONS options, and
\* set_approvals never returns the error of a selection above the ceiling;
\* a list longer than the ceiling made of repeated valid ids is accepted,
\* and the caller then approves the distinct ids of the list.
C37_CeilingNeverExceeded ==
    /\ \A v \in DOMAIN vote : Cardinality(OptionsOf(v)) <= MAX_OPTIONS
    /\ result # "TooManyApprovals"
    /\ (ValidSetApprovals /\ Len(call.list) > ApprovalCeiling)
          => /\ result = "Ok"
             /\ ApprovedBy(approval, call.vote_id, call.sender) = Range(call.list)

\* a list of 2 * MAX_OPTIONS ids, every option of the vote twice, has been
\* accepted for a vote created with more labels than MAX_OPTIONS
C37_Witness ==
    /\ Succeeded("set_approvals")
    /\ Len(call.list) = 2 * MAX_OPTIONS
    /\ Cardinality(OptionsOf(1)) = MAX_OPTIONS
    /\ ApprovedBy(approval, 1, call.sender) = OptionsOf(1)
    /\ vote_option[MAX_OPTIONS].label = Labels(MAX_OPTIONS)[MAX_OPTIONS]

\* the judgment rows and the approval rows of the tables t that voter v owns
OwnedRows(t, v) ==
    LET judged == {r \in BagToSet(t.judgment) : r.voter = v}
        approved == {r \in BagToSet(t.approval) : r.voter = v}
    IN [judgment |-> [r \in judged |-> t.judgment[r]],
        approval |-> [r \in approved |-> t.approval[r]]]

\* the rows of voter v that do not belong to the vote, by the options the
\* tables t give the vote
OwnedRowsOutside(t, v, vote_id) ==
    LET judged == {r \in BagToSet(t.judgment) :
                      r.voter = v /\ r.option_id \notin OptionsIn(t, vote_id)}
        approved == {r \in BagToSet(t.approval) :
                        r.voter = v /\ r.vote_id # vote_id}
    IN [judgment |-> [r \in judged |-> t.judgment[r]],
        approval |-> [r \in approved |-> t.approval[r]]]

\* the voters who own a row now or owned one when the last call was made
RowOwners ==
    {r.voter : r \in BagToSet(judgment) \cup BagToSet(before.judgment)}
       \cup {r.voter : r \in BagToSet(approval) \cup BagToSet(before.approval)}

\* C39 (SpecCrossVote): a ballot reducer leaves the judgment rows and the
\* approval rows of every voter other than its caller as they were; the rows
\* a voter owns change only in a ballot reducer called by that voter, or in
\* a delete_vote, which removes the voter's rows of the deleted vote only.
C39_OnlyOwnRowsChange ==
    \A v \in RowOwners \cup Voters :
        OwnedRows(Tables, v) # OwnedRows(before, v) =>
            \/ /\ call.op \in JudgmentOps \cup ApprovalOps
               /\ call.sender = v
               /\ result = "Ok"
            \/ /\ Succeeded("delete_vote")
               /\ OwnedRowsOutside(Tables, v, call.vote_id)
                     = OwnedRowsOutside(before, v, call.vote_id)

\* voter 2 has replaced its ballot for vote 1 while voter 1 holds a ballot
\* for the same vote and an approval
C39_Witness ==
    /\ Succeeded("submit_complete_judgment_ballot")
    /\ call.sender = 2 /\ call.vote_id = MJVote
    /\ OwnedRows(Tables, 2) # OwnedRows(before, 2)
    /\ RowsOfVoter(judgment, MJVote, 1) # EmptyBag
    /\ OwnedRows(Tables, 1).approval # EmptyBag

\* C38 (SpecOrder), as the specification states it: two calls of two
\* different voters on the same vote leave the same judgment rows, approval
\* rows, approval counters and summaries in whichever order they run.
C38_OrderIndependent ==
    prior.op = "second, first" => Tables = prior.outcome

=============================================================================
